---- MODULE Spec2Model ----
(***************************************************************************)
(* Degen Dogs DAO mini app: the holder-gated write path.                   *)
(*                                                                         *)
(*   - the client session of public/assets/app.js: Firebase start-up,      *)
(*     Farcaster sign-in, profile and wallet holdings, the holder gate;    *)
(*   - the three gated writes (createPost, createThreadReply, voteOnPost)  *)
(*     against the document store, whose runTransaction is optimistic:     *)
(*     reads are validated at commit and the update function is re-run on  *)
(*     contention;                                                         *)
(*   - the /api/verify endpoint in its three deployments (Node, Deno,      *)
(*     Firebase Functions).                                                *)
(***************************************************************************)
EXTENDS Integers, Sequences, FiniteSets, TLC

(***************************************************************************)
(* Bounds of the model.                                                    *)
(***************************************************************************)
MaxPosts == 1
MaxReplies == 2
MaxBalance == 1
MaxAttempts == 2
NumSlots == 2

(***************************************************************************)
(* Values.                                                                 *)
(***************************************************************************)
\* fid = null (app.js:58); a fid of 0 is falsy for the handlers' !fid too.
NoFid == 0
\* firebaseUser = null (app.js:73)
NoUser == 0
\* walletHoldings = null (app.js:67)
NoBalance == -1
\* The uid Firebase anonymous auth gives this browser, and this host's fid.
LocalUid == 1
LocalFid == 1

PostIds == 1..(MaxPosts + 1)   \* the last id is never created: a stale post id
Balances == 0..MaxBalance
Slots == 1..NumSlots

\* profileHoldings = null (app.js:66) is known = FALSE
NoHoldings == [known |-> FALSE, total |-> 0, checked |-> 0, failed |-> 0]
Summary(t, c, f) == [known |-> TRUE, total |-> t, checked |-> c, failed |-> f]

VARIABLES
    \* ---- client session (app.js:56-76)
    fid, verifiedAddresses, hasSignedIn, signInInProgress,
    profileHoldings, walletHoldings, isHolder,
    sdkReady, supportsWallet, fallbackDiffers,
    firestoreDb, firestoreReady, firestoreInitInProgress,
    firebaseUser, firebaseAuthReady, firebaseAuthPending, firebaseAuthError,
    \* ---- positions of the asynchronous handlers
    signIn,        \* handleSignIn: [pc, signedIn, results, calls, res]
    walletCheck,   \* handleWalletCheck: "idle" | "rpc"
    fsInit,        \* initFirestore / initFirebaseAuth: "config" | "auth" | "done"
    ops,           \* in-flight gated writes, one record per slot
    ensure,        \* ensureBaseChain: its position, locals and the requests it issued
    accounts,      \* requestAccounts: its position, the requests it issued, their answers
    \* ---- DOM
    postsStatus, postSubmitDisabled, walletButtonDisabled,
    voteButtonDisabled, countEl,
    \* ---- document store
    posts, votes, threads,
    \* ---- verification endpoint
    deployment,    \* which handler serves /api/verify, and its environment
    verify,        \* the handler's position and locals: [pc, token, domain, user]
    req, res

envVars == <<sdkReady, supportsWallet, fallbackDiffers>>
sessionVars == <<fid, verifiedAddresses, hasSignedIn, signInInProgress,
                 profileHoldings, walletHoldings, isHolder, envVars>>
firebaseVars == <<firestoreDb, firestoreReady, firestoreInitInProgress,
                  firebaseUser, firebaseAuthReady, firebaseAuthPending, firebaseAuthError>>
handlerVars == <<signIn, walletCheck, fsInit, ops>>
chainVars == <<ensure, accounts>>
domVars == <<postsStatus, postSubmitDisabled, walletButtonDisabled, voteButtonDisabled, countEl>>
storeVars == <<posts, votes, threads>>
serverVars == <<deployment, verify, req, res>>
clientVars == <<sessionVars, chainVars, firebaseVars, handlerVars, domVars, storeVars>>
vars == <<sessionVars, chainVars, firebaseVars, handlerVars, domVars, storeVars, serverVars>>

(***************************************************************************)
(* The holder gate and the form state.                                     *)
(***************************************************************************)
\* variant: holder only with both a profile and a wallet balance
HolderOfBoth(ph, wh) ==
    LET profileTotal == IF ph.known THEN ph.total ELSE 0
        walletTotal == IF wh = NoBalance THEN 0 ELSE wh
    IN  profileTotal > 0 /\ walletTotal > 0

\* isHolder as updateHolderState computes it
HolderOf(ph, wh) ==
    LET profileTotal == IF ph.known THEN ph.total ELSE 0
        walletTotal == IF wh = NoBalance THEN 0 ELSE wh
    IN  profileTotal > 0 \/ walletTotal > 0

\* canWrite / canInteract of updatePostFormState and updatePostListControls
CanInteract(ready, user, signed, holder) ==
    ready /\ user # NoUser /\ signed /\ holder

\* the status line updatePostFormState leaves
FormStatus(ready, initInProgress, authError, authPending, user, authReady, signed, holder) ==
    IF ~ready THEN (IF initInProgress THEN "Connecting to Firebase..."
                                      ELSE "Firestore is not configured yet.")
    ELSE IF authError THEN "Firebase auth failed to initialize."
    ELSE IF authPending THEN "Connecting to Firebase..."
    ELSE IF user = NoUser THEN (IF authReady THEN "Firebase auth not ready."
                                             ELSE "Connecting to Firebase...")
    ELSE IF ~signed THEN "Sign in to create posts and vote."
    ELSE IF ~holder THEN "Only Degen Dogs holders can create posts or vote."
    ELSE "Ready to post and vote."

\* updatePostFormState, run on the values the calling step leaves
updatePostFormState ==
    LET can == CanInteract(firestoreReady', firebaseUser', hasSignedIn', isHolder')
    IN  /\ postSubmitDisabled' = ~can
        /\ voteButtonDisabled' = [p \in PostIds |-> ~can]
        /\ postsStatus' = FormStatus(firestoreReady', firestoreInitInProgress',
                                     firebaseAuthError', firebaseAuthPending',
                                     firebaseUser', firebaseAuthReady',
                                     hasSignedIn', isHolder')

\* updateHolderState, run on the holdings the calling step leaves
updateHolderState ==
    /\ isHolder' = HolderOf(profileHoldings', walletHoldings')
    /\ updatePostFormState

(***************************************************************************)
(* Addresses.  An address string is modelled by the 20-byte value it       *)
(* denotes (id) and whether it is written with upper-case hex digits; id 0 *)
(* is a string that is no 0x-prefixed 40-hex-digit address.                *)
(***************************************************************************)
Addr(i, u) == [id |-> i, upper |-> u, spaced |-> FALSE]
\* the same string with white space around it
Spaced(a) == [a EXCEPT !.spaced = TRUE]
AddrTokens == {Addr(1, FALSE), Addr(1, TRUE), Addr(0, FALSE)}
AddressLists == {<< >>, <<Addr(1, FALSE)>>, <<Addr(1, TRUE), Addr(1, FALSE)>>, <<Addr(0, FALSE)>>,
                 <<Addr(1, FALSE), Addr(2, TRUE)>>,
                 <<Spaced(Addr(1, TRUE)), Addr(1, FALSE), Spaced(Addr(2, FALSE))>>}

\* normalizeAddress that keeps the letters' case
normalizeAddressCaseKept(value) == Addr(value.id, value.upper)

\* normalizeAddress: trimmed and lower-cased, or null (id 0) when malformed
normalizeAddress(value) == Addr(value.id, FALSE)

RECURSIVE uniqueFrom(_, _)
uniqueFrom(addresses, acc) ==
    IF addresses = << >> THEN acc
    ELSE LET normalized == normalizeAddress(Head(addresses))
             seen == \E i \in 1..Len(acc) : acc[i] = normalized
         IN  uniqueFrom(Tail(addresses),
                        IF normalized.id # 0 /\ ~seen THEN Append(acc, normalized) ELSE acc)

\* uniqueAddresses: the normalized addresses in first-seen order (a JS Set)
uniqueAddresses(addresses) == uniqueFrom(addresses, << >>)

(***************************************************************************)
(* Start-up: initFirestore and initFirebaseAuth.                           *)
(***************************************************************************)
\* initFirestore after `await loadFirebaseConfig()`; outcome is what the
\* configuration lookup and initializeApp gave
InitFirestoreSettled(outcome) ==
    /\ fsInit = "config"
    /\ firestoreInitInProgress' = FALSE
    /\ UNCHANGED <<sessionVars, chainVars, firebaseUser, firebaseAuthError, signIn, walletCheck, ops,
                   walletButtonDisabled, countEl, storeVars, serverVars>>
    /\ IF outcome = "ready"
       THEN /\ firestoreDb' = TRUE
            /\ firestoreReady' = TRUE
            /\ firebaseAuthReady' = TRUE
            /\ firebaseAuthPending' = TRUE
            /\ fsInit' = "auth"
            /\ updatePostFormState
       ELSE /\ UNCHANGED <<firestoreDb, firestoreReady, firebaseAuthReady, firebaseAuthPending,
                           postSubmitDisabled, voteButtonDisabled>>
            /\ fsInit' = "done"
            /\ postsStatus' = IF outcome = "no_config"
                              THEN "Firestore is not configured yet. Add Firebase config values."
                              ELSE "Firestore failed to initialize."

\* initFirebaseAuth after `await signInAnonymously()`: on success the
\* onAuthStateChanged callback has delivered the anonymous user
FirebaseAuthSettled(ok) ==
    /\ fsInit = "auth"
    /\ fsInit' = "done"
    /\ firebaseAuthPending' = FALSE
    /\ firebaseUser' = IF ok THEN LocalUid ELSE firebaseUser
    /\ firebaseAuthError' = IF ok THEN firebaseAuthError ELSE TRUE
    /\ UNCHANGED <<sessionVars, chainVars, firestoreDb, firestoreReady, firestoreInitInProgress,
                   firebaseAuthReady, signIn, walletCheck, ops,
                   walletButtonDisabled, countEl, storeVars, serverVars>>
    /\ updatePostFormState

(***************************************************************************)
(* handleSignIn, checkProfileHoldings and the silent wallet check.         *)
(***************************************************************************)
\* Promise.allSettled marks a rejected balance query
Rejected == -2
\* a balance query that has not settled yet
Pending == -3

\* What a verification call can answer: status 0 is a fetch that threw; a
\* custody of Addr(0, FALSE) is a response without custodyAddress.
VerifyAnswers ==
    {[status |-> s, hasFid |-> FALSE, fid |-> NoFid, addrs |-> << >>, custody |-> Addr(0, FALSE)] :
        s \in {0, 200, 401, 404, 405, 500}}
    \cup {[status |-> 200, hasFid |-> TRUE, fid |-> LocalFid, addrs |-> a, custody |-> c] :
            a \in AddressLists, c \in {Addr(0, FALSE), Addr(1, TRUE)}}

\* the verified addresses handleSignIn keeps: the response's list plus the
\* custody address unless that very string is already in it
VerifiedOf(data) ==
    IF data.custody.id # 0 /\ ~(\E i \in 1..Len(data.addrs) : data.addrs[i] = data.custody)
    THEN Append(data.addrs, data.custody)
    ELSE data.addrs

\* SummaryOf for a batch that stops at its first rejected query
SummaryOfUntilFailure(results) ==
    LET before == {i \in DOMAIN results : \A j \in 1..i : results[j] # Rejected}
        RECURSIVE Sum(_)
        Sum(S) == IF S = {} THEN 0
                  ELSE LET i == CHOOSE j \in S : TRUE IN results[i] + Sum(S \ {i})
    IN  [total |-> Sum(before), checked |-> Cardinality(before),
         failed |-> Len(results) - Cardinality(before)]

\* SummaryOf with the rejected queries left uncounted
SummaryOfFulfilled(results) ==
    LET ok == {i \in DOMAIN results : results[i] # Rejected}
        RECURSIVE Sum(_)
        Sum(S) == IF S = {} THEN 0
                  ELSE LET i == CHOOSE j \in S : TRUE IN results[i] + Sum(S \ {i})
    IN  [total |-> Sum(ok), checked |-> Cardinality(ok), failed |-> 0]

\* the summary checkProfileHoldings computes from the settled queries
SummaryOf(results) ==
    LET ok == {i \in DOMAIN results : results[i] # Rejected}
        RECURSIVE Sum(_)
        Sum(S) == IF S = {} THEN 0
                  ELSE LET i == CHOOSE j \in S : TRUE IN results[i] + Sum(S \ {i})
    IN  [total |-> Sum(ok), checked |-> Cardinality(ok),
         failed |-> Len(results) - Cardinality(ok)]

\* no response in hand
Unanswered == [status |-> 0, hasFid |-> FALSE, fid |-> NoFid, addrs |-> << >>,
               custody |-> Addr(0, FALSE)]

\* handleSignIn: its position, signedIn, the balance queries of its batch,
\* the verification calls it has made, and the primary's response while the
\* fallback is awaited
idleSignIn == [pc |-> "idle", signedIn |-> FALSE, results |-> << >>, calls |-> << >>,
               res |-> Unanswered]

\* variant: the session counted as signed in from the start of the attempt
HandleSignInOptimistic ==
    /\ ~signInInProgress
    /\ signIn.pc = "idle"
    /\ signInInProgress' = TRUE
    /\ hasSignedIn' = TRUE
    /\ signIn' = [idleSignIn EXCEPT !.pc = "verify", !.calls = <<"apiVerifyUrl">>]
    /\ walletButtonDisabled' = TRUE
    /\ UNCHANGED <<fid, verifiedAddresses, profileHoldings, walletHoldings,
                   isHolder, envVars, chainVars, firebaseVars,
                   walletCheck, fsInit, ops,
                   postsStatus, postSubmitDisabled, voteButtonDisabled, countEl,
                   storeVars, serverVars>>

\* handleSignIn up to `await quickAuthFetch(apiVerifyUrl)`
HandleSignIn ==
    /\ ~signInInProgress
    /\ signIn.pc = "idle"
    /\ signInInProgress' = TRUE
    /\ signIn' = [idleSignIn EXCEPT !.pc = "verify", !.calls = <<"apiVerifyUrl">>]
    /\ walletButtonDisabled' = TRUE
    /\ UNCHANGED <<fid, verifiedAddresses, hasSignedIn, profileHoldings, walletHoldings,
                   isHolder, envVars, chainVars, firebaseVars,
                   walletCheck, fsInit, ops,
                   postsStatus, postSubmitDisabled, voteButtonDisabled, countEl,
                   storeVars, serverVars>>

\* variant: a failed attempt that keeps the in-progress flag
SignInRejectedHeld ==
    /\ hasSignedIn' = signIn.signedIn
    /\ signInInProgress' = signInInProgress
    /\ signIn' = idleSignIn
    /\ walletButtonDisabled' = TRUE
    /\ UNCHANGED <<fid, verifiedAddresses, profileHoldings, walletHoldings, isHolder,
                   envVars, chainVars, firebaseVars, walletCheck, fsInit, ops,
                   countEl, storeVars, serverVars>>
    /\ updatePostFormState

\* the catch and finally blocks of handleSignIn
SignInRejected ==
    /\ hasSignedIn' = signIn.signedIn
    /\ signInInProgress' = FALSE
    /\ signIn' = idleSignIn
    /\ walletButtonDisabled' = TRUE
    /\ UNCHANGED <<fid, verifiedAddresses, profileHoldings, walletHoldings, isHolder,
                   envVars, chainVars, firebaseVars, walletCheck, fsInit, ops,
                   countEl, storeVars, serverVars>>
    /\ updatePostFormState

\* the end of the try block and the finally block of handleSignIn
SignInFinished ==
    /\ hasSignedIn' = TRUE
    /\ signInInProgress' = FALSE
    /\ signIn' = idleSignIn
    /\ walletButtonDisabled' = ~supportsWallet

\* handleSignIn from an accepted response on: identity is stored and
\* checkProfileHoldings runs to its first await
SignInAccepted(data) ==
    /\ fid' = data.fid
    /\ verifiedAddresses' = VerifiedOf(data)
    /\ UNCHANGED <<walletHoldings, envVars, chainVars, firebaseVars, walletCheck,
                   fsInit, ops, countEl, storeVars, serverVars>>
    /\ IF uniqueAddresses(verifiedAddresses') = << >>
       THEN /\ profileHoldings' = Summary(0, 0, 0)
            /\ isHolder' = HolderOf(profileHoldings', walletHoldings')
            /\ IF sdkReady /\ supportsWallet
               THEN /\ signIn' = [idleSignIn EXCEPT !.pc = "wallet", !.signedIn = TRUE,
                                           !.calls = signIn.calls]
                    /\ UNCHANGED <<hasSignedIn, signInInProgress, walletButtonDisabled>>
               ELSE SignInFinished
            /\ updatePostFormState
       ELSE /\ profileHoldings' = NoHoldings
            /\ signIn' = [idleSignIn EXCEPT
                              !.pc = "holdings", !.signedIn = TRUE, !.calls = signIn.calls,
                              !.results = [i \in 1..Len(uniqueAddresses(verifiedAddresses')) |-> Pending]]
            /\ UNCHANGED <<isHolder, hasSignedIn, signInInProgress, domVars>>

\* the answer that decides the attempt: thrown, refused, malformed, accepted
SignInDecided(answer) ==
    IF answer.status = 200 /\ answer.hasFid
    THEN SignInAccepted(answer)
    ELSE SignInRejected

\* handleSignIn after `await quickAuthFetch(apiVerifyUrl)`
SignInVerified(answer) ==
    /\ signIn.pc = "verify"
    /\ IF answer.status \in {404, 405} /\ fallbackDiffers
       THEN /\ signIn' = [signIn EXCEPT !.pc = "fallback", !.res = answer,
                                         !.calls = Append(@, "fallbackVerifyUrl")]
            /\ UNCHANGED <<sessionVars, chainVars, firebaseVars, walletCheck, fsInit, ops, domVars,
                           storeVars, serverVars>>
       ELSE SignInDecided(answer)

\* variant: the fallback's response never replaces the primary's
PrimaryInForce(primary, fallback) == primary

\* the response in force after the fallback call: the fallback's when it is
\* ok or not itself 404/405, else the primary's
ResInForce(primary, fallback) ==
    IF fallback.status = 200 \/ fallback.status \notin {404, 405} THEN fallback ELSE primary

\* handleSignIn after `await quickAuthFetch(fallbackVerifyUrl)`
SignInFallback(answer) ==
    /\ signIn.pc = "fallback"
    /\ SignInDecided(ResInForce(signIn.res, answer))

\* one balanceOfAddress call of the batch settles: its eth_call answered
\* (outcome is the decoded balance) or failed
BalanceQuerySettled(i, outcome) ==
    /\ signIn.pc = "holdings"
    /\ i \in DOMAIN signIn.results
    /\ signIn.results[i] = Pending
    /\ signIn' = [signIn EXCEPT !.results[i] = outcome]
    /\ UNCHANGED <<sessionVars, chainVars, firebaseVars, walletCheck, fsInit, ops, domVars,
                   storeVars, serverVars>>

\* a promise that resolves as soon as one of the queries has settled
AnySettled(results) == \E i \in DOMAIN results : results[i] # Pending

\* Promise.allSettled(addresses.map(balanceOfAddress)) resolves
AllSettled(results) == \A i \in DOMAIN results : results[i] # Pending

\* a summary is stored even when no query succeeded
StoredHoldingsAlways(s) == Summary(s.total, s.checked, s.failed)

\* what checkProfileHoldings stores: null when no query succeeded
StoredHoldings(s) ==
    IF s.checked = 0 THEN NoHoldings ELSE Summary(s.total, s.checked, s.failed)

\* checkProfileHoldings after `await Promise.allSettled(...)`, then the rest
\* of handleSignIn up to its next await
SignInHoldingsSettled ==
    /\ signIn.pc = "holdings"
    /\ AllSettled(signIn.results)
    /\ UNCHANGED <<fid, verifiedAddresses, walletHoldings, envVars, chainVars,
                   firebaseVars, walletCheck, fsInit, ops, countEl, storeVars, serverVars>>
    /\ profileHoldings' = StoredHoldings(SummaryOf(signIn.results))
    /\ isHolder' = HolderOf(profileHoldings', walletHoldings')
    /\ IF sdkReady /\ supportsWallet
       THEN /\ signIn' = [idleSignIn EXCEPT !.pc = "wallet", !.signedIn = TRUE,
                                           !.calls = signIn.calls]
            /\ UNCHANGED <<hasSignedIn, signInInProgress, walletButtonDisabled>>
       ELSE SignInFinished
    /\ updatePostFormState

\* variant: a failed check forgets the balance read before
connectWalletAndCheckForgetful(balance) ==
    /\ walletHoldings' = balance
    /\ isHolder' = HolderOf(profileHoldings', walletHoldings')

\* connectWalletAndCheck from its last await on: balance is the decoded
\* eth_call result, or NoBalance when any step of the check failed
connectWalletAndCheck(balance) ==
    /\ walletHoldings' = IF balance = NoBalance THEN walletHoldings ELSE balance
    /\ isHolder' = IF balance = NoBalance THEN isHolder
                   ELSE HolderOf(profileHoldings', walletHoldings')

\* handleSignIn after `await connectWalletAndCheck({allowPrompt: false, silent: true})`
SignInWalletEnds(balance) ==
    /\ signIn.pc = "wallet"
    /\ UNCHANGED <<fid, verifiedAddresses, profileHoldings, envVars,
                   firebaseVars, walletCheck, fsInit, ops, countEl, storeVars, serverVars>>
    /\ connectWalletAndCheck(balance)
    /\ SignInFinished
    /\ updatePostFormState

\* the same, the steps of connectWalletAndCheck taken as one
SignInWalletSettled(balance) ==
    /\ SignInWalletEnds(balance)
    /\ UNCHANGED chainVars

\* handleWalletCheck up to `await connectWalletAndCheck(...)`: a click on the
\* enabled wallet button
HandleWalletCheck ==
    /\ ~walletButtonDisabled
    /\ walletCheck = "idle"
    /\ hasSignedIn /\ supportsWallet
    /\ walletCheck' = "rpc"
    /\ walletButtonDisabled' = TRUE
    /\ UNCHANGED <<sessionVars, chainVars, firebaseVars, signIn, fsInit, ops, postsStatus,
                   postSubmitDisabled, voteButtonDisabled, countEl, storeVars, serverVars>>

\* handleWalletCheck after the await, whatever connectWalletAndCheck did on
\* the way to its result
WalletCheckEnds(balance) ==
    /\ walletCheck = "rpc"
    /\ walletCheck' = "idle"
    /\ walletButtonDisabled' = FALSE
    /\ UNCHANGED <<fid, verifiedAddresses, hasSignedIn, signInInProgress, profileHoldings,
                   envVars, firebaseVars, signIn, fsInit, ops, countEl,
                   storeVars, serverVars>>
    /\ connectWalletAndCheck(balance)
    /\ IF balance = NoBalance
       THEN UNCHANGED <<postsStatus, postSubmitDisabled, voteButtonDisabled>>
       ELSE updatePostFormState

\* handleWalletCheck after the await, the steps of connectWalletAndCheck
\* taken as one
WalletCheckSettled(balance) ==
    /\ WalletCheckEnds(balance)
    /\ UNCHANGED chainVars

(***************************************************************************)
(* The chain check of the wallet flow: ensureBaseChain as the client runs  *)
(* it (app.js, built from app.ts) and as the earlier client revision runs  *)
(* it (part_001), one action per provider request that settles.            *)
(***************************************************************************)
BASE_CHAIN_ID == "0x2105"

\* chainId = null
NoChain == ""

\* what a provider answers to eth_chainId: the chain it is on and the way
\* the id is written ("0x2105", "0X2105", 8453, "8453", or a blank string)
RawChainIds ==
    {[chain |-> c, form |-> f] : c \in {"base", "mainnet"},
                                 f \in {"hex", "HEX", "number", "decimal"}}
        \cup {[chain |-> "none", form |-> "blank"]}

\* `0x${value.toString(16)}`
Hex(chain) == IF chain = "base" THEN "0x2105" ELSE "0x1"

\* the answer taken as it is written (`as string`)
Written(value) ==
    CASE value.form = "hex" -> Hex(value.chain)
      [] value.form = "HEX" -> IF value.chain = "base" THEN "0X2105" ELSE "0X1"
      [] value.form \in {"number", "decimal"} -> IF value.chain = "base" THEN "8453" ELSE "1"
      [] OTHER -> " "

normalizeChainId(value) ==
    CASE value.form = "number" -> Hex(value.chain)
      [] value.form = "blank" -> NoChain
      [] value.form \in {"hex", "HEX"} -> Hex(value.chain)
      [] OTHER -> Hex(value.chain)

\* an error a provider request rejects with; a code in quotes is the string,
\* a code without them the number
ProviderError(code, message) == [code |-> code, message |-> message]
NoError == ProviderError("", "")

ErrorCodes == {"4001", "'4001'", "ACTION_REJECTED", "-32601", "METHOD_NOT_FOUND",
               "4200", "'4200'", "4902", "'4902'", "-32603", "undefined"}

ErrorMessages == {"User rejected the request.", "Method unsupported.",
                  "Wallet does not support the method.", "Internal JSON-RPC error."}

ProviderErrors ==
    {ProviderError(c, "Internal JSON-RPC error.") : c \in ErrorCodes}
        \cup {ProviderError("undefined", m) : m \in ErrorMessages}

\* errorMessage(err).toLowerCase().includes(phrase)
Includes(message, phrase) ==
    \/ message = "User rejected the request." /\ phrase = "user rejected"
    \/ message = "Method unsupported." /\ phrase = "unsupported"
    \/ message = "Wallet does not support the method." /\ phrase = "not support"

isMethodUnsupported(err) ==
    \/ Includes(err.message, "not support")
    \/ Includes(err.message, "unsupported")
    \/ err.code \in {"-32601", "METHOD_NOT_FOUND", "4200", "'4200'"}

isUserRejected(err) ==
    \/ err.code \in {"4001", "'4001'", "ACTION_REJECTED"}
    \/ Includes(err.message, "user rejected")

\* code === 4902 || code === "4902"
ChainNotRecognized(err) == err.code \in {"4902", "'4902'"}

\* a call of ensureBaseChain: the revision that runs it, its caller, its
\* argument, the request it awaits, its local chainId, the provider requests
\* it has issued, what it returned or threw, and the transport of the balance
\* read that followed it
idleEnsure == [impl |-> "app", caller |-> "none", allowSwitch |-> FALSE, pc |-> "idle",
               chainId |-> NoChain, requests |-> << >>, useRpcFallback |-> FALSE,
               error |-> NoError, read |-> "none"]

\* no call of ensureBaseChain is awaiting a provider request
EnsureSettled == ensure.pc \in {"idle", "returned", "thrown"}

\* await activeProvider.request({method})
Request(e, method, pc) == [e EXCEPT !.pc = pc, !.requests = Append(@, method)]

\* return {chainId, useRpcFallback}; part_001 returns the chain id alone
Return(e, chainId, fallback) ==
    [e EXCEPT !.pc = "returned", !.chainId = chainId,
              !.useRpcFallback = (e.impl = "app" /\ fallback)]

Throw(e, err) == [e EXCEPT !.pc = "thrown", !.error = err]

\* variant: the last return statement answering useRpcFallback: false
FinishOnWallet(e, chainId) == Return(e, chainId, FALSE)

\* const isBase = chainId === BASE_CHAIN_ID; return {chainId, useRpcFallback: !isBase}
Finish(e, chainId) == Return(e, chainId, chainId # BASE_CHAIN_ID)

\* the catch block around the switch request and the re-read after it
SwitchCatch(e, err) ==
    IF ChainNotRecognized(err)
    THEN Request(e, "wallet_addEthereumChain", "add")
    ELSE IF e.impl = "app" /\ (isMethodUnsupported(err) \/ isUserRejected(err))
         THEN Return(e, e.chainId, TRUE)
         ELSE Throw(e, err)

\* a step of ensureBaseChain leaves everything but its own call alone
EnsureStep(e) ==
    /\ ensure' = e
    /\ UNCHANGED <<accounts, sessionVars, firebaseVars, handlerVars, domVars, storeVars, serverVars>>

\* ensureBaseChain(activeProvider, allowSwitch) up to its first request;
\* part_001 has no parameter and always goes on to switch
EnsureBaseChain(impl, allowSwitch) ==
    /\ walletCheck = "idle"
    /\ EnsureSettled
    /\ impl = "part_001" => allowSwitch
    /\ EnsureStep(Request([idleEnsure EXCEPT !.impl = impl, !.allowSwitch = allowSwitch],
                          "eth_chainId", "eth_chainId"))

\* connectWalletAndCheck from a provider and an account on:
\* `await ensureBaseChain(activeProvider, false)`
WalletCheckEnsures ==
    /\ walletCheck = "rpc"
    /\ EnsureSettled
    /\ ensure.pc = "idle" \/ ensure.caller = "none"
    /\ EnsureStep(Request([idleEnsure EXCEPT !.caller = "connectWalletAndCheck"],
                          "eth_chainId", "eth_chainId"))

\* the first eth_chainId request answered
ChainIdRead(value) ==
    /\ ensure.pc = "eth_chainId"
    /\ LET id == IF ensure.impl = "app" THEN normalizeChainId(value) ELSE Written(value)
           e == [ensure EXCEPT !.chainId = id]
       IN  EnsureStep(IF ensure.allowSwitch /\ id # BASE_CHAIN_ID
                      THEN Request(e, "wallet_switchEthereumChain", "switch")
                      ELSE IF ensure.impl = "app"
                           THEN Finish(e, id)
                           ELSE Request(e, "eth_chainId", "reread"))

\* the first eth_chainId request rejected
ChainIdFailed(err) ==
    /\ ensure.pc = "eth_chainId"
    /\ EnsureStep(IF ensure.impl = "app"
                  THEN Return(ensure, NoChain, TRUE)
                  ELSE Throw(ensure, err))

\* wallet_switchEthereumChain answered
SwitchSettled ==
    /\ ensure.pc = "switch"
    /\ EnsureStep(Request(ensure, "eth_chainId", "reread"))

\* wallet_switchEthereumChain rejected
SwitchFailed(err) ==
    /\ ensure.pc = "switch"
    /\ EnsureStep(SwitchCatch(ensure, err))

\* wallet_addEthereumChain answered
AddSettled ==
    /\ ensure.pc = "add"
    /\ EnsureStep(Request(ensure, "eth_chainId",
                          IF ensure.impl = "app" THEN "addReread" ELSE "reread"))

\* wallet_addEthereumChain rejected
AddFailed(err) ==
    /\ ensure.pc = "add"
    /\ EnsureStep(IF ensure.impl = "app"
                  THEN Return(ensure, ensure.chainId, TRUE)
                  ELSE Throw(ensure, err))

\* the chain id read again after a switch or an add
ChainReRead(value) ==
    /\ ensure.pc \in {"reread", "addReread"}
    /\ EnsureStep(IF ensure.impl = "app"
                  THEN Finish(ensure, normalizeChainId(value))
                  ELSE Return(ensure, Written(value), FALSE))

\* the re-read rejected: inside the try block of the switch, inside the try
\* block of the add, or (part_001) outside any
ChainReReadFailed(err) ==
    /\ ensure.pc \in {"reread", "addReread"}
    /\ EnsureStep(IF ensure.impl # "app"
                  THEN Throw(ensure, err)
                  ELSE IF ensure.pc = "reread"
                       THEN SwitchCatch(ensure, err)
                       ELSE Return(ensure, ensure.chainId, TRUE))

\* a click on the wallet button while no other call is under way
WalletButtonClicked ==
    /\ EnsureSettled
    /\ HandleWalletCheck

\* connectWalletAndCheck without a provider or an account: return false
WalletCheckAbandoned ==
    /\ ensure.pc = "idle" \/ ensure.caller = "none"
    /\ EnsureSettled
    /\ WalletCheckSettled(NoBalance)

\* connectWalletAndCheck after ensureBaseChain: the balance is read with
\* rpcCallBase and stored; a failed read, like an error thrown before it,
\* ends in the catch block
WalletBalanceRead(balance) ==
    /\ walletCheck = "rpc"
    /\ ensure.caller = "connectWalletAndCheck"
    /\ ensure.pc \in {"returned", "thrown"}
    /\ ensure.pc = "thrown" => balance = NoBalance
    /\ ensure' = [ensure EXCEPT !.pc = "idle",
                                !.read = IF ensure.pc = "returned" THEN "rpcCallBase" ELSE "none"]
    /\ UNCHANGED accounts
    /\ WalletCheckEnds(balance)

(***************************************************************************)
(* requestAccounts.  The record holds the call under way: the methods it   *)
(* has requested and what each request gave ("accounts", "none",           *)
(* "unsupported", "rejected", "error"), and whether it returned accounts.  *)
(***************************************************************************)
idleAccounts == [allowPrompt |-> FALSE, pc |-> "idle", requests |-> << >>, answers |-> << >>,
                 found |-> FALSE]

\* variant: the prompting method tried whatever allowPrompt says
methodsAlways(allowPrompt) == <<"eth_accounts", "eth_requestAccounts">>

\* const methods = allowPrompt ? ["eth_accounts", "eth_requestAccounts"] : ["eth_accounts"]
methods(allowPrompt) ==
    IF allowPrompt THEN <<"eth_accounts", "eth_requestAccounts">> ELSE <<"eth_accounts">>

AccountsStep(a) ==
    /\ accounts' = a
    /\ UNCHANGED <<ensure, sessionVars, firebaseVars, handlerVars, domVars, storeVars, serverVars>>

\* the loop goes on to the next method, or falls out of it: return null
NextMethod(a) ==
    IF Len(a.requests) < Len(methods(a.allowPrompt))
    THEN [a EXCEPT !.requests = Append(@, methods(a.allowPrompt)[Len(a.requests) + 1])]
    ELSE [a EXCEPT !.pc = "returned"]

\* a check is at `await requestAccounts(activeProvider, allowPrompt)`
\* and no call is under way
AwaitsAccounts ==
    /\ walletCheck = "rpc" \/ signIn.pc = "wallet"
    /\ accounts.pc = "idle"
    /\ ensure.pc = "idle"

\* connectWalletAndCheck from getProvider to the first request of
\* requestAccounts; handleWalletCheck passes allowPrompt: true, handleSignIn
\* allowPrompt: false
requestAccounts ==
    /\ AwaitsAccounts
    /\ AccountsStep(NextMethod([idleAccounts EXCEPT !.allowPrompt = (walletCheck = "rpc"),
                                                    !.pc = "request"]))

\* the request answered with a list of n accounts
AccountsAnswered(n) ==
    /\ accounts.pc = "request"
    /\ AccountsStep(IF n > 0
                    THEN [accounts EXCEPT !.pc = "returned", !.found = TRUE,
                                          !.answers = Append(@, "accounts")]
                    ELSE NextMethod([accounts EXCEPT !.answers = Append(@, "none")]))

\* the request rejected with err: the catch block inside the loop
AccountsFailed(err) ==
    /\ accounts.pc = "request"
    /\ AccountsStep(IF isMethodUnsupported(err)
                    THEN NextMethod([accounts EXCEPT !.answers = Append(@, "unsupported")])
                    ELSE IF isUserRejected(err)
                    THEN [accounts EXCEPT !.pc = "returned", !.answers = Append(@, "rejected")]
                    ELSE [accounts EXCEPT !.pc = "thrown", !.answers = Append(@, "error")])

\* connectWalletAndCheck after requestAccounts returned accounts:
\* `await ensureBaseChain(activeProvider, false)`
ConnectWalletEnsures ==
    /\ accounts.pc = "returned" /\ accounts.found
    /\ ensure.pc = "idle"
    /\ EnsureStep(Request([idleEnsure EXCEPT !.caller = "connectWalletAndCheck"],
                          "eth_chainId", "eth_chainId"))

\* the caller of connectWalletAndCheck resumes with its result
CallerResumes(balance) ==
    IF walletCheck = "rpc" THEN WalletCheckEnds(balance) ELSE SignInWalletEnds(balance)

\* getProvider throws: connectWalletAndCheck returns false before any request
ConnectWalletNoProvider ==
    /\ AwaitsAccounts
    /\ accounts' = idleAccounts
    /\ UNCHANGED ensure
    /\ CallerResumes(NoBalance)

\* connectWalletAndCheck from the return of requestAccounts or of
\* ensureBaseChain to its own return: without accounts it returns false;
\* after ensureBaseChain the balance is read with rpcCallBase and stored; an
\* error thrown on the way, like a failed read, ends in the catch block
ConnectWalletOver(balance) ==
    /\ IF accounts.pc = "returned" /\ accounts.found
       THEN /\ ensure.caller = "connectWalletAndCheck"
            /\ ensure.pc \in {"returned", "thrown"}
            /\ ensure.pc = "thrown" => balance = NoBalance
            /\ ensure' = [ensure EXCEPT !.pc = "idle",
                                        !.read = IF ensure.pc = "returned" THEN "rpcCallBase"
                                                 ELSE "none"]
       ELSE /\ accounts.pc \in {"returned", "thrown"}
            /\ balance = NoBalance
            /\ UNCHANGED ensure
    /\ accounts' = [accounts EXCEPT !.pc = "idle"]
    /\ CallerResumes(balance)

(***************************************************************************)
(* The document store.  posts/{id} carries the two counters;               *)
(* posts/{id}/votes/{uid} is one document per path; posts/{id}/threads     *)
(* holds the reply documents under their generated ids.                    *)
(***************************************************************************)
POST_TITLE_MAX == 120
POST_BODY_MAX == 1200
THREAD_BODY_MAX == 800

NoPost == [exists |-> FALSE, voteCount |-> 0, threadCount |-> 0, fid |-> NoFid, uid |-> NoUser]

VotesUnder(p) == {v \in votes : v.post = p}
VoteExists(p, u) == \E v \in votes : v.post = p /\ v.uid = u

\* tx.set(voteRef, {fid, uid, ...}): the document at that path is replaced
SetVote(vs, p, u, f) ==
    {v \in vs : ~(v.post = p /\ v.uid = u)} \cup {[post |-> p, uid |-> u, fid |-> f]}

\* variant: the vote document written without the counter update
CommitVoteUncounted(p, u, f) ==
    /\ votes' = SetVote(votes, p, u, f)
    /\ UNCHANGED <<posts, threads>>

\* the writes of voteOnPost's transaction, applied as one commit
CommitVote(p, u, f) ==
    /\ votes' = SetVote(votes, p, u, f)
    /\ posts' = [posts EXCEPT ![p].voteCount = @ + 1]
    /\ UNCHANGED threads

\* variant: the reply document written without the counter update
CommitReplyUncounted(p, u, f) ==
    /\ threads' = [threads EXCEPT ![p] = Append(@, [fid |-> f])]
    /\ UNCHANGED <<posts, votes>>

\* the writes of createThreadReply's transaction, applied as one commit
CommitReply(p, u, f) ==
    /\ threads' = [threads EXCEPT ![p] = Append(@, [fid |-> f])]
    /\ posts' = [posts EXCEPT ![p].threadCount = @ + 1]
    /\ UNCHANGED votes

\* addDoc(postsRef, {..., voteCount: 0, threadCount: 0}) under a fresh id
CommitPost(p, u, f) ==
    /\ posts' = [posts EXCEPT ![p] = [exists |-> TRUE, voteCount |-> 0, threadCount |-> 0,
                                      fid |-> f, uid |-> u]]
    /\ UNCHANGED <<votes, threads>>

\* the ids addDoc can still generate
FreshPostIds == {p \in 1..MaxPosts : ~posts[p].exists}

\* variant: a commit that does not validate what the transaction read
ReadNeverStale(sawVote, p, u) == FALSE

\* a read document no longer matches what the transaction saw
ReadIsStale(sawVote, p, u) == sawVote # VoteExists(p, u)

(***************************************************************************)
(* The gated writes of this client.                                        *)
(***************************************************************************)
\* a handler invocation takes the first free slot
FreeSlot(o) == ops[o].pc = "idle" /\ \A q \in Slots : q < o => ops[q].pc # "idle"

idleOp == [pc |-> "idle", kind |-> "none", post |-> 0, uid |-> NoUser, fid |-> NoFid,
           attempt |-> 0, sawVote |-> FALSE, didVote |-> FALSE]

\* the vote count renderPosts shows for each post
Rendered == [p \in PostIds |-> IF posts[p].exists THEN posts[p].voteCount ELSE 0]

\* variant: voteOnPost without its isHolder check
voteOnPostUngated(o, postId) ==
    /\ FreeSlot(o)
    /\ UNCHANGED <<sessionVars, chainVars, firebaseVars, signIn, walletCheck, fsInit,
                   postSubmitDisabled, walletButtonDisabled, countEl, storeVars, serverVars>>
    /\ IF ~firestoreDb \/ firebaseUser = NoUser \/ fid = NoFid \/ ~hasSignedIn
       THEN /\ postsStatus' = "Sign in to vote."
            /\ UNCHANGED <<ops, voteButtonDisabled>>
       ELSE /\ voteButtonDisabled' = [voteButtonDisabled EXCEPT ![postId] = TRUE]
            /\ ops' = [ops EXCEPT ![o] = [idleOp EXCEPT !.pc = "get", !.kind = "vote",
                                                        !.post = postId, !.uid = firebaseUser,
                                                        !.attempt = 1]]
            /\ UNCHANGED postsStatus

\* voteOnPost up to `await tx.get(voteRef)` of the first attempt
voteOnPost(o, postId) ==
    /\ FreeSlot(o)
    /\ UNCHANGED <<sessionVars, chainVars, firebaseVars, signIn, walletCheck, fsInit,
                   postSubmitDisabled, walletButtonDisabled, countEl, storeVars, serverVars>>
    /\ IF ~firestoreDb \/ firebaseUser = NoUser \/ fid = NoFid \/ ~hasSignedIn
       THEN /\ postsStatus' = "Sign in to vote."
            /\ UNCHANGED <<ops, voteButtonDisabled>>
       ELSE IF ~isHolder
       THEN /\ postsStatus' = "Only holders can vote."
            /\ UNCHANGED <<ops, voteButtonDisabled>>
       ELSE /\ voteButtonDisabled' = [voteButtonDisabled EXCEPT ![postId] = TRUE]
            /\ ops' = [ops EXCEPT ![o] = [idleOp EXCEPT !.pc = "get", !.kind = "vote",
                                                        !.post = postId, !.uid = firebaseUser,
                                                        !.attempt = 1]]
            /\ UNCHANGED postsStatus

\* the update function from `await tx.get(voteRef)` to its return
VoteTxGet(o) ==
    /\ ops[o].pc = "get"
    /\ ops' = [ops EXCEPT ![o] =
                  IF VoteExists(ops[o].post, ops[o].uid)
                  THEN [@ EXCEPT !.pc = "commit", !.sawVote = TRUE]
                  ELSE [@ EXCEPT !.pc = "commit", !.sawVote = FALSE, !.fid = fid,
                                 !.didVote = TRUE]]
    /\ UNCHANGED <<sessionVars, chainVars, firebaseVars, signIn, walletCheck, fsInit, domVars,
                   storeVars, serverVars>>

\* variant: a catch block that leaves the vote button disabled
VoteCaughtDisabled(o) ==
    /\ postsStatus' = "Unable to record vote."
    /\ ops' = [ops EXCEPT ![o] = idleOp]
    /\ UNCHANGED <<voteButtonDisabled, countEl, storeVars>>

\* the catch block of voteOnPost
VoteCaught(o) ==
    /\ postsStatus' = "Unable to record vote."
    /\ voteButtonDisabled' = [voteButtonDisabled EXCEPT ![ops[o].post] = FALSE]
    /\ ops' = [ops EXCEPT ![o] = idleOp]
    /\ UNCHANGED <<countEl, storeVars>>

\* variant: the count bumped whenever the transaction resolves
VoteReturnedCounted(o) ==
    /\ countEl' = [countEl EXCEPT ![ops[o].post] = @ + 1]
    /\ postsStatus' = "Vote recorded."
    /\ ops' = [ops EXCEPT ![o] = idleOp]
    /\ UNCHANGED voteButtonDisabled

\* voteOnPost after `await runTransaction(...)` resolved
VoteReturned(o) ==
    /\ IF ops[o].didVote
       THEN /\ countEl' = [countEl EXCEPT ![ops[o].post] = @ + 1]
            /\ postsStatus' = "Vote recorded."
       ELSE /\ postsStatus' = "You already voted on this post."
            /\ UNCHANGED countEl
    /\ ops' = [ops EXCEPT ![o] = idleOp]
    /\ UNCHANGED voteButtonDisabled

\* variant: the commit lets the update of a missing post document pass
VoteTxCommitUnchecked(o) ==
    /\ ops[o].pc = "commit"
    /\ ops[o].kind = "vote"
    /\ UNCHANGED <<sessionVars, chainVars, firebaseVars, signIn, walletCheck, fsInit,
                   postSubmitDisabled, walletButtonDisabled, serverVars>>
    /\ IF ReadIsStale(ops[o].sawVote, ops[o].post, ops[o].uid)
       THEN IF ops[o].attempt < MaxAttempts
            THEN /\ ops' = [ops EXCEPT ![o].pc = "get", ![o].attempt = @ + 1]
                 /\ UNCHANGED <<domVars, storeVars>>
            ELSE VoteCaught(o)
       ELSE IF ops[o].sawVote
       THEN /\ UNCHANGED storeVars
            /\ VoteReturned(o)
       ELSE /\ CommitVote(ops[o].post, ops[o].uid, ops[o].fid)
            /\ VoteReturned(o)

\* the store deciding the transaction's commit: the read is validated, the
\* update needs its post, the writes land together; a stale read re-runs the
\* update function until the attempts are used up
VoteTxCommit(o) ==
    /\ ops[o].pc = "commit"
    /\ ops[o].kind = "vote"
    /\ UNCHANGED <<sessionVars, chainVars, firebaseVars, signIn, walletCheck, fsInit,
                   postSubmitDisabled, walletButtonDisabled, serverVars>>
    /\ IF ReadIsStale(ops[o].sawVote, ops[o].post, ops[o].uid)
       THEN IF ops[o].attempt < MaxAttempts
            THEN /\ ops' = [ops EXCEPT ![o].pc = "get", ![o].attempt = @ + 1]
                 /\ UNCHANGED <<domVars, storeVars>>
            ELSE VoteCaught(o)
       ELSE IF ops[o].sawVote
       THEN /\ UNCHANGED storeVars
            /\ VoteReturned(o)
       ELSE IF posts[ops[o].post].exists
       THEN /\ CommitVote(ops[o].post, ops[o].uid, ops[o].fid)
            /\ VoteReturned(o)
       ELSE VoteCaught(o)

\* the transaction rejected by the transport or the store before it commits
VoteTxFailed(o) ==
    /\ ops[o].pc \in {"get", "commit"}
    /\ ops[o].kind = "vote"
    /\ VoteCaught(o)
    /\ UNCHANGED <<sessionVars, chainVars, firebaseVars, signIn, walletCheck, fsInit,
                   postSubmitDisabled, walletButtonDisabled, serverVars>>

\* createThreadReply up to `await runTransaction(...)`; len is the length of
\* the trimmed reply
createThreadReply(o, postId, len) ==
    /\ FreeSlot(o)
    /\ UNCHANGED <<sessionVars, chainVars, firebaseVars, signIn, walletCheck, fsInit,
                   postSubmitDisabled, walletButtonDisabled, voteButtonDisabled, countEl,
                   storeVars, serverVars>>
    /\ LET refusal ==
               IF ~firestoreDb THEN "Firestore is not configured yet."
               ELSE IF firebaseUser = NoUser THEN "Firebase auth not ready yet."
               ELSE IF ~hasSignedIn THEN "Sign in to reply."
               ELSE IF ~isHolder THEN "Only holders can reply."
               ELSE IF fid = NoFid THEN "Unable to determine your Farcaster ID."
               ELSE IF len = 0 THEN "Write a reply before posting."
               ELSE IF len > THREAD_BODY_MAX THEN "Reply is too long."
               ELSE ""
       IN  IF refusal # ""
           THEN /\ postsStatus' = refusal
                /\ UNCHANGED ops
           ELSE /\ postsStatus' = "Posting reply..."
                /\ ops' = [ops EXCEPT ![o] = [idleOp EXCEPT !.pc = "commit", !.kind = "reply",
                                                            !.post = postId,
                                                            !.uid = firebaseUser, !.fid = fid,
                                                            !.attempt = 1]]

\* the store deciding the reply transaction, then the rest of the handler
ReplyTxCommit(o) ==
    /\ ops[o].pc = "commit"
    /\ ops[o].kind = "reply"
    /\ Len(threads[ops[o].post]) < MaxReplies
    /\ ops' = [ops EXCEPT ![o] = idleOp]
    /\ UNCHANGED <<sessionVars, chainVars, firebaseVars, signIn, walletCheck, fsInit,
                   postSubmitDisabled, walletButtonDisabled, voteButtonDisabled, countEl,
                   serverVars>>
    /\ IF posts[ops[o].post].exists
       THEN /\ CommitReply(ops[o].post, ops[o].uid, ops[o].fid)
            /\ postsStatus' = "Reply posted."
       ELSE /\ UNCHANGED storeVars
            /\ postsStatus' = "Unable to post reply."

\* the reply transaction rejected by the transport or the store
ReplyTxFailed(o) ==
    /\ ops[o].pc = "commit"
    /\ ops[o].kind = "reply"
    /\ ops' = [ops EXCEPT ![o] = idleOp]
    /\ postsStatus' = "Unable to post reply."
    /\ UNCHANGED <<sessionVars, chainVars, firebaseVars, signIn, walletCheck, fsInit,
                   postSubmitDisabled, walletButtonDisabled, voteButtonDisabled, countEl,
                   storeVars, serverVars>>

\* what a form field holds: a text of so many characters between so many
\* characters of white space
FieldValues(max) ==
    {[text |-> n, spaces |-> 0] : n \in {0, 1, max, max + 1}}
        \cup {[text |-> 0, spaces |-> 1], [text |-> max, spaces |-> 1]}

\* the post form as submitted: one field at a time varies around a short
\* title and a short body
PostForms ==
    {[title |-> t, body |-> [text |-> 1, spaces |-> 0]] : t \in FieldValues(POST_TITLE_MAX)}
        \cup {[title |-> [text |-> 1, spaces |-> 0], body |-> b] : b \in FieldValues(POST_BODY_MAX)}

\* variant: the length of the field as typed
RawLength(value) == value.text + value.spaces

\* value.trim().length
TrimmedLength(value) == value.text

\* createPost up to `await addDoc(...)`
createPost(o, title, body) ==
    /\ FreeSlot(o)
    /\ UNCHANGED <<sessionVars, chainVars, firebaseVars, signIn, walletCheck, fsInit,
                   walletButtonDisabled, voteButtonDisabled, countEl, storeVars, serverVars>>
    /\ LET titleLen == TrimmedLength(title)
           bodyLen == TrimmedLength(body)
           refusal ==
               IF ~firestoreDb THEN "Firestore is not configured yet."
               ELSE IF firebaseUser = NoUser THEN "Firebase auth not ready yet."
               ELSE IF ~hasSignedIn THEN "Sign in to create a post."
               ELSE IF ~isHolder THEN "Only holders can create posts."
               ELSE IF fid = NoFid THEN "Unable to determine your Farcaster ID."
               ELSE IF titleLen = 0 \/ bodyLen = 0 THEN "Add a title and description."
               ELSE IF titleLen > POST_TITLE_MAX \/ bodyLen > POST_BODY_MAX
                    THEN "Post is too long."
               ELSE ""
       IN  IF refusal # ""
           THEN /\ postsStatus' = refusal
                /\ UNCHANGED <<ops, postSubmitDisabled>>
           ELSE /\ postsStatus' = "Posting..."
                /\ postSubmitDisabled' = TRUE
                /\ ops' = [ops EXCEPT ![o] = [idleOp EXCEPT !.pc = "commit", !.kind = "post",
                                                            !.uid = firebaseUser, !.fid = fid,
                                                            !.attempt = 1]]

\* addDoc resolved: the post exists; createPost goes on to `await loadPosts()`
PostAdded(o) ==
    /\ ops[o].pc = "commit"
    /\ ops[o].kind = "post"
    /\ \E p \in FreshPostIds :
          /\ p = CHOOSE q \in FreshPostIds : \A r \in FreshPostIds : q <= r
          /\ CommitPost(p, ops[o].uid, ops[o].fid)
    /\ postsStatus' = "Post created."
    /\ ops' = [ops EXCEPT ![o].pc = "reload"]
    /\ UNCHANGED <<sessionVars, chainVars, firebaseVars, signIn, walletCheck, fsInit,
                   postSubmitDisabled, walletButtonDisabled, voteButtonDisabled, countEl,
                   serverVars>>

\* addDoc rejected: the catch and finally blocks of createPost
PostFailed(o) ==
    /\ ops[o].pc = "commit"
    /\ ops[o].kind = "post"
    /\ postsStatus' = "Unable to create post."
    /\ postSubmitDisabled' = FALSE
    /\ ops' = [ops EXCEPT ![o] = idleOp]
    /\ UNCHANGED <<sessionVars, chainVars, firebaseVars, signIn, walletCheck, fsInit,
                   walletButtonDisabled, voteButtonDisabled, countEl, storeVars, serverVars>>

\* renderPosts on the posts the store holds now
renderPosts ==
    /\ countEl' = Rendered
    /\ voteButtonDisabled' =
          [p \in PostIds |-> ~CanInteract(firestoreReady, firebaseUser, hasSignedIn, isHolder)]

\* createPost after `await loadPosts()`, and its finally block
PostReloaded(o, loaded) ==
    /\ ops[o].pc = "reload"
    /\ ops' = [ops EXCEPT ![o] = idleOp]
    /\ postSubmitDisabled' = FALSE
    /\ IF loaded
       THEN /\ renderPosts
            /\ UNCHANGED postsStatus
       ELSE /\ postsStatus' = "Unable to load posts right now."
            /\ UNCHANGED <<countEl, voteButtonDisabled>>
    /\ UNCHANGED <<sessionVars, chainVars, firebaseVars, signIn, walletCheck, fsInit,
                   walletButtonDisabled, storeVars, serverVars>>

(***************************************************************************)
(* Other clients of the same store: the same Farcaster user on another     *)
(* device (its own anonymous uid), and another user.  Their transactions   *)
(* reach this client only as commits.                                      *)
(***************************************************************************)
OtherClients == {[uid |-> 2, fid |-> LocalFid],
                 [uid |-> 3, fid |-> 2]}

\* a committed voteOnPost transaction of another client
OtherVote(c, p) ==
    /\ posts[p].exists
    /\ ~VoteExists(p, c.uid)
    /\ CommitVote(p, c.uid, c.fid)
    /\ UNCHANGED <<sessionVars, chainVars, firebaseVars, handlerVars, domVars, serverVars>>

\* a committed createThreadReply transaction of another client
OtherReply(c, p) ==
    /\ posts[p].exists
    /\ Len(threads[p]) < MaxReplies
    /\ CommitReply(p, c.uid, c.fid)
    /\ UNCHANGED <<sessionVars, chainVars, firebaseVars, handlerVars, domVars, serverVars>>

\* a committed createPost of another client
OtherPost(c) ==
    /\ \E p \in FreshPostIds :
          /\ p = CHOOSE q \in FreshPostIds : \A r \in FreshPostIds : q <= r
          /\ CommitPost(p, c.uid, c.fid)
    /\ UNCHANGED <<sessionVars, chainVars, firebaseVars, handlerVars, domVars, serverVars>>

(***************************************************************************)
(* The verification endpoint: handleVerify of server/index.ts (Node), the  *)
(* Deno.serve callback of deno/verify.ts, and the Firebase Functions       *)
(* handler `verify`.  A token is modelled by what verifyJwt examines: its  *)
(* signature, its expiry, its audience domain and its subject.  A header   *)
(* value is the comma-separated list it carries, each entry a host with or *)
(* without a port; << >> is an absent or empty header.                     *)
(***************************************************************************)
\* the domain this deployment is served at, and another mini app's domain
OwnDomain == "dao.example"
OtherDomain == "other.example"

NoToken == [present |-> FALSE, signed |-> FALSE, expired |-> FALSE, aud |-> "",
            subFinite |-> FALSE]
AllTokens == [present : {TRUE}, signed : BOOLEAN, expired : BOOLEAN,
              aud : {OwnDomain, OtherDomain}, subFinite : BOOLEAN]
Defects(t) == {d \in {"signature", "expiry", "audience", "subject"} :
                  \/ d = "signature" /\ ~t.signed
                  \/ d = "expiry" /\ t.expired
                  \/ d = "audience" /\ t.aud # OwnDomain
                  \/ d = "subject" /\ ~t.subFinite}
\* the tokens requests carry: sound for this deployment, or with one defect
Tokens == {t \in AllTokens : Cardinality(Defects(t)) <= 1}

HostEntry(h, p) == [host |-> h, port |-> p]
ForwardedHostValues == {<< >>, <<HostEntry(OwnDomain, FALSE)>>, <<HostEntry(OtherDomain, TRUE)>>,
                        <<HostEntry(OtherDomain, FALSE), HostEntry(OwnDomain, FALSE)>>}
ProxyHeaderValues == {<< >>, <<HostEntry(OtherDomain, FALSE)>>}
HostValues == {<< >>, <<HostEntry(OwnDomain, TRUE)>>, <<HostEntry(OtherDomain, FALSE)>>}

\* the origin a browser names in its Origin header, and the origin an
\* operator can fix with CORS_ORIGIN
AppOrigin == "https://app.example"
FixedOrigin == "https://fixed.example"

\* a token with no defect for this deployment
SoundToken == [present |-> TRUE, signed |-> TRUE, expired |-> FALSE, aud |-> OwnDomain,
               subFinite |-> TRUE]

NoRequest == [method |-> "", origin |-> "", body |-> "none", bodyToken |-> NoToken,
              bearer |-> NoToken,
              xForwardedHost |-> << >>, xOriginalHost |-> << >>, xForwardedServer |-> << >>,
              host |-> << >>]
\* body: "none" is an empty body, "malformed" is text that is no JSON, "json"
\* is a JSON object whose token field is bodyToken, "oversized" is such an
\* object of more than 1,000,000 characters
Requests ==
    {r \in [method : {"GET", "POST", "OPTIONS", "PUT"},
            origin : {"", AppOrigin},
            body : {"none", "malformed", "json", "oversized"},
            bodyToken : Tokens \cup {NoToken},
            bearer : Tokens \cup {NoToken},
            xForwardedHost : ForwardedHostValues,
            xOriginalHost : ProxyHeaderValues,
            xForwardedServer : ProxyHeaderValues,
            host : HostValues] :
        /\ r.body \in {"none", "malformed"} => r.bodyToken = NoToken
        /\ r.body = "oversized" => r.bodyToken \in {NoToken, SoundToken}
        /\ r.method # "POST" => r.body = "none"}

\* what fetchNeynarUser can give: null (NoNeynarUser), or a user record; a
\* custody of Addr(0, FALSE) is a record without custody_address, a username
\* of FALSE a record without username
NoNeynarUser == [found |-> FALSE, fid |-> NoFid, username |-> FALSE, eth |-> << >>,
                 verifications |-> << >>, custody |-> Addr(0, FALSE)]
NeynarRecord(f, name, eth, verifications, custody) ==
    [found |-> TRUE, fid |-> f, username |-> name, eth |-> eth,
     verifications |-> verifications, custody |-> custody]
OwnRecords ==
    {NeynarRecord(LocalFid, FALSE, << >>, << >>, Addr(0, FALSE)),
     NeynarRecord(LocalFid, TRUE, <<Addr(1, TRUE)>>, <<Addr(1, FALSE)>>, Addr(1, TRUE)),
     NeynarRecord(LocalFid, TRUE, <<Addr(1, FALSE)>>, <<Addr(2, FALSE)>>, Addr(0, FALSE))}
OtherRecord == NeynarRecord(2, TRUE, <<Addr(2, FALSE)>>, << >>, Addr(2, FALSE))

\* the response of the profile provider: ok is res.ok with a JSON body; users
\* and resultUsers are data.users and data.result.users, arrays or not; user
\* is data.user
NotArray == [isArray |-> FALSE, items |-> << >>]
Array(items) == [isArray |-> TRUE, items |-> items]
FailedLookup == [ok |-> FALSE, users |-> NotArray, resultUsers |-> NotArray,
                 user |-> NoNeynarUser]
UserArrays ==
    {Array(<< >>)} \cup {Array(<<record>>) : record \in OwnRecords \cup {OtherRecord}}
    \cup {Array(<<OtherRecord, record>>) : record \in OwnRecords}
NeynarResponses ==
    {FailedLookup}
    \cup {[ok |-> TRUE, users |-> a, resultUsers |-> NotArray, user |-> NoNeynarUser] :
             a \in UserArrays}
    \cup {[ok |-> TRUE, users |-> NotArray, resultUsers |-> a, user |-> NoNeynarUser] :
             a \in UserArrays}
    \cup {[ok |-> TRUE, users |-> a, resultUsers |-> NotArray, user |-> u] :
             a \in {NotArray, Array(<< >>)},
             u \in OwnRecords \cup {OtherRecord, NoNeynarUser}}

NoResponse == [status |-> 0, error |-> "", fid |-> NoFid, username |-> FALSE,
               custodyAddress |-> Addr(0, FALSE), verifiedEthAddresses |-> << >>,
               allowOrigin |-> "", allowMethods |-> "", allowHeaders |-> ""]
\* the handler's locals; pc is "done" once it has answered, "thrown" once it
\* has ended by an exception nothing catches
idleVerify == [pc |-> "idle", token |-> NoToken, domain |-> "", user |-> NoNeynarUser]

\* the environment of a deployment: APP_DOMAIN, CORS_ORIGIN (read by the Node
\* server alone) and whether NEYNAR_API_KEY is set
Deployments ==
    {d \in [impl : {"node", "deno", "functions"}, appDomain : {"", OwnDomain},
            corsOrigin : {"", FixedOrigin}, neynarApiKey : BOOLEAN] :
        d.corsOrigin # "" => d.impl = "node"}

\* setCors of server/index.ts: the header is set only for a non-empty origin
setCors(r) == IF deployment.corsOrigin # "" THEN deployment.corsOrigin ELSE r.origin

\* corsHeaders of deno/verify.ts: origin || "*"
corsHeaders(r) == IF r.origin # "" THEN r.origin ELSE "*"

\* setCors of the Functions handler
setCorsFunctions(r) == IF r.origin # "" THEN r.origin ELSE "*"

\* the Access-Control-Allow-Origin header of this deployment's responses
\* ("" when the header is not set)
AllowOrigin(r) ==
    IF deployment.impl = "node" THEN setCors(r)
    ELSE IF deployment.impl = "deno" THEN corsHeaders(r)
    ELSE setCorsFunctions(r)

\* the headers every response of the handler carries
WithCors(response, r) ==
    [response EXCEPT !.allowOrigin = AllowOrigin(r),
                     !.allowMethods = "GET, POST, OPTIONS",
                     !.allowHeaders = "content-type, authorization"]

\* sendJson(res, status, {error}), or the bodiless 204
Respond(r, status, error) ==
    res' = WithCors([NoResponse EXCEPT !.status = status, !.error = error], r)

\* the handler returns before it has extracted a token
ReturnEarly == verify' = [idleVerify EXCEPT !.pc = "done"]

\* hostValue.split(",")[0]?.trim().split(":")[0] || ""
EffectiveHost(value) == IF value = << >> THEN "" ELSE Head(value).host

\* the host the request's headers name: forwarded headers before host
hostFromHeaders(r) ==
    LET forwardedHost == IF r.xForwardedHost # << >> THEN r.xForwardedHost
                         ELSE IF r.xOriginalHost # << >> THEN r.xOriginalHost
                         ELSE r.xForwardedServer
        hostHeader == IF forwardedHost # << >> THEN forwardedHost ELSE r.host
    IN  EffectiveHost(hostHeader)

\* getDomain of the Functions handler: the headers alone
getDomain(r) == hostFromHeaders(r)

\* domain = appDomain || host
ConfiguredOrHost(r) ==
    IF deployment.appDomain # "" THEN deployment.appDomain ELSE hostFromHeaders(r)

\* the Authorization header's bearer token when the body gave none
OrBearer(token, r) == IF token.present THEN token ELSE r.bearer

\* parsed.token || "" of a POST body that parses
ParsedToken(r) ==
    IF r.method = "POST" /\ r.body \in {"json", "oversized"} THEN r.bodyToken ELSE NoToken

\* readToken of deno/verify.ts: an unparsable body gives no token
readTokenDeno(r) == OrBearer(ParsedToken(r), r)

\* readToken of the Functions handler: an unparsable body ends the search
readTokenFunctions(r) ==
    IF r.method = "POST" /\ r.body = "malformed" THEN NoToken
    ELSE OrBearer(ParsedToken(r), r)

\* StartVerification with the domain check made before the token check
StartVerificationDomainFirst(r, token, domain) ==
    IF domain = ""
    THEN /\ Respond(r, 500, "missing_domain")
         /\ verify' = [idleVerify EXCEPT !.pc = "done", !.token = token]
    ELSE IF ~token.present
    THEN /\ Respond(r, 400, "missing_token")
         /\ verify' = [idleVerify EXCEPT !.pc = "done"]
    ELSE /\ verify' = [idleVerify EXCEPT !.pc = "verifyJwt", !.token = token,
                                         !.domain = domain]
         /\ res' = NoResponse

\* from the extracted token to `await client.verifyJwt({ token, domain })`
StartVerification(r, token, domain) ==
    IF ~token.present
    THEN /\ Respond(r, 400, "missing_token")
         /\ verify' = [idleVerify EXCEPT !.pc = "done"]
    ELSE IF domain = ""
    THEN /\ Respond(r, 500, "missing_domain")
         /\ verify' = [idleVerify EXCEPT !.pc = "done", !.token = token]
    ELSE /\ verify' = [idleVerify EXCEPT !.pc = "verifyJwt", !.token = token,
                                         !.domain = domain]
         /\ res' = NoResponse

\* handleVerify of server/index.ts up to its await of verifyJwt; readBody
\* throws on a body over 1,000,000 characters, outside every try block
handleVerify ==
    /\ deployment.impl = "node"
    /\ req = NoRequest
    /\ UNCHANGED <<deployment, clientVars>>
    /\ \E r \in Requests :
          /\ req' = r
          /\ IF r.method = "OPTIONS" THEN Respond(r, 204, "") /\ ReturnEarly
             ELSE IF r.method \notin {"POST", "GET"}
             THEN Respond(r, 405, "method_not_allowed") /\ ReturnEarly
             ELSE IF r.method = "POST" /\ r.body = "oversized"
             THEN /\ res' = NoResponse
                  /\ verify' = [idleVerify EXCEPT !.pc = "thrown"]
             ELSE IF r.method = "POST" /\ r.body = "malformed"
             THEN Respond(r, 400, "invalid_json") /\ ReturnEarly
             ELSE StartVerification(r, OrBearer(ParsedToken(r), r), ConfiguredOrHost(r))

\* the Deno.serve callback of deno/verify.ts on /api/verify, up to verifyJwt
serve ==
    /\ deployment.impl = "deno"
    /\ req = NoRequest
    /\ UNCHANGED <<deployment, clientVars>>
    /\ \E r \in Requests :
          /\ req' = r
          /\ IF r.method = "OPTIONS" THEN Respond(r, 204, "") /\ ReturnEarly
             ELSE IF r.method \notin {"GET", "POST"}
             THEN Respond(r, 405, "method_not_allowed") /\ ReturnEarly
             ELSE StartVerification(r, readTokenDeno(r), ConfiguredOrHost(r))

\* the Functions handler `verify`, up to verifyJwt
verifyFunction ==
    /\ deployment.impl = "functions"
    /\ req = NoRequest
    /\ UNCHANGED <<deployment, clientVars>>
    /\ \E r \in Requests :
          /\ req' = r
          /\ IF r.method = "OPTIONS" THEN Respond(r, 204, "") /\ ReturnEarly
             ELSE IF r.method \notin {"GET", "POST"}
             THEN Respond(r, 405, "method_not_allowed") /\ ReturnEarly
             ELSE StartVerification(r, readTokenFunctions(r), getDomain(r))

\* client.verifyJwt({token, domain}): the payload for a token that is signed,
\* unexpired and issued for `domain`; InvalidTokenError for any other token;
\* another error when the verifier itself fails (its key lookup)
VerifyJwtOutcomes(token, domain) ==
    (IF token.signed /\ ~token.expired /\ token.aud = domain
     THEN {"payload"} ELSE {"InvalidTokenError"}) \cup {"Error"}

\* new Set([...verifiedEth, ...verifications, custodyAddress]) as an array:
\* the strings in first-seen order, compared as written
RECURSIVE SetOrder(_, _)
SetOrder(addresses, acc) ==
    IF addresses = << >> THEN acc
    ELSE SetOrder(Tail(addresses),
                  IF \E i \in 1..Len(acc) : acc[i] = Head(addresses)
                  THEN acc ELSE Append(acc, Head(addresses)))

\* fetchNeynarUser after `await res.json()`: the first element of data.users
\* or else of data.result.users, or data.user, or null
fetchNeynarUser(data) ==
    LET users == IF data.users.isArray THEN data.users
                 ELSE IF data.resultUsers.isArray THEN data.resultUsers
                 ELSE NotArray
    IN  IF users.isArray /\ Len(users.items) > 0 THEN users.items[1] ELSE data.user

\* `try { user = await fetchNeynarUser(fid) } catch {}`: a lookup that threw
\* (no ok response, no JSON) leaves user = null
LookupResult(data) == IF data.ok THEN fetchNeynarUser(data) ELSE NoNeynarUser

\* the 200 response assembled from the payload and the user record
RespondVerified(r, user) ==
    /\ res' = WithCors([NoResponse EXCEPT
                   !.status = 200,
                   !.fid = LocalFid,
                   !.username = user.username,
                   !.custodyAddress = user.custody,
                   !.verifiedEthAddresses =
                       SetOrder(user.eth \o user.verifications \o
                                (IF user.custody.id # 0 THEN <<user.custody>> ELSE << >>),
                                << >>)], r)
    /\ verify' = [verify EXCEPT !.pc = "done", !.user = user]

\* an error response after the token and the domain were settled
RespondError(status, error) ==
    /\ Respond(req, status, error)
    /\ verify' = [verify EXCEPT !.pc = "done"]

\* VerifyJwtSettled with a catch block that lets a failure other than
\* InvalidTokenError pass as a verified token
VerifyJwtSettledLenient(outcome) ==
    /\ verify.pc = "verifyJwt"
    /\ outcome \in VerifyJwtOutcomes(verify.token, verify.domain)
    /\ UNCHANGED <<deployment, req, clientVars>>
    /\ IF outcome = "InvalidTokenError" THEN RespondError(401, "invalid_token")
       ELSE IF ~verify.token.subFinite THEN RespondError(400, "invalid_fid")
       ELSE IF deployment.neynarApiKey
       THEN /\ verify' = [verify EXCEPT !.pc = "neynar"]
            /\ UNCHANGED res
       ELSE RespondVerified(req, NoNeynarUser)

\* the handler after `await client.verifyJwt(...)`, up to the profile lookup
VerifyJwtSettled(outcome) ==
    /\ verify.pc = "verifyJwt"
    /\ outcome \in VerifyJwtOutcomes(verify.token, verify.domain)
    /\ UNCHANGED <<deployment, req, clientVars>>
    /\ IF outcome = "InvalidTokenError" THEN RespondError(401, "invalid_token")
       ELSE IF outcome = "Error" THEN RespondError(500, "verification_failed")
       ELSE IF ~verify.token.subFinite THEN RespondError(400, "invalid_fid")
       ELSE IF deployment.neynarApiKey
       THEN /\ verify' = [verify EXCEPT !.pc = "neynar"]
            /\ UNCHANGED res
       ELSE RespondVerified(req, NoNeynarUser)

\* NeynarSettled without the try block around the lookup: a lookup that
\* gives no user fails the request
NeynarSettledStrict ==
    /\ verify.pc = "neynar"
    /\ UNCHANGED <<deployment, req, clientVars>>
    /\ \E data \in NeynarResponses :
          IF LookupResult(data).found THEN RespondVerified(req, LookupResult(data))
          ELSE RespondError(500, "verification_failed")

\* the handler after `await fetchNeynarUser(fid)` has settled
NeynarSettled ==
    /\ verify.pc = "neynar"
    /\ UNCHANGED <<deployment, req, clientVars>>
    /\ \E data \in NeynarResponses : RespondVerified(req, LookupResult(data))

\* res.end(...): the exchange is over and the handler keeps nothing of it
ResponseSent ==
    /\ res # NoResponse
    /\ req' = NoRequest
    /\ res' = NoResponse
    /\ verify' = idleVerify
    /\ UNCHANGED <<deployment, clientVars>>

\* no request in flight
serverIdle ==
    /\ verify = idleVerify
    /\ req = NoRequest
    /\ res = NoResponse

(***************************************************************************)
(* Specifications.                                                         *)
(***************************************************************************)
emptyStore ==
    /\ posts = [p \in PostIds |-> NoPost]
    /\ votes = {}
    /\ threads = [p \in PostIds |-> << >>]

\* the page once init() has run: inside a Farcaster host the automatic
\* sign-in is already awaiting its verification call
PageLoaded(sdk, wallet, fallback) ==
    /\ sdkReady = sdk
    /\ supportsWallet = wallet
    /\ fallbackDiffers = fallback
    /\ fid = NoFid
    /\ verifiedAddresses = << >>
    /\ hasSignedIn = FALSE
    /\ signInInProgress = sdkReady
    /\ profileHoldings = NoHoldings
    /\ walletHoldings = NoBalance
    /\ isHolder = FALSE
    /\ firestoreDb = FALSE
    /\ firestoreReady = FALSE
    /\ firestoreInitInProgress = TRUE
    /\ firebaseUser = NoUser
    /\ firebaseAuthReady = FALSE
    /\ firebaseAuthPending = FALSE
    /\ firebaseAuthError = FALSE
    /\ signIn = IF sdkReady
                THEN [idleSignIn EXCEPT !.pc = "verify", !.calls = <<"apiVerifyUrl">>]
                ELSE idleSignIn
    /\ walletCheck = "idle"
    /\ ensure = idleEnsure
    /\ accounts = idleAccounts
    /\ fsInit = "config"
    /\ ops = [o \in Slots |-> idleOp]
    /\ postsStatus = "Connecting to Firebase..."
    /\ postSubmitDisabled = TRUE
    /\ walletButtonDisabled = TRUE
    /\ voteButtonDisabled = [p \in PostIds |-> TRUE]
    /\ countEl = [p \in PostIds |-> 0]
    /\ emptyStore

\* the settled balance queries of a batch of n addresses
HoldingsResults(n) == [1..n -> Balances \cup {Rejected}]

InitSession ==
    /\ \E sdk \in BOOLEAN, fallback \in BOOLEAN :
          \E wallet \in {w \in BOOLEAN : w => sdk} : PageLoaded(sdk, wallet, fallback)
    /\ deployment = [impl |-> "node", appDomain |-> OwnDomain, corsOrigin |-> "",
                     neynarApiKey |-> TRUE]
    /\ serverIdle

SessionNext ==
    \/ \E outcome \in {"ready", "no_config", "failed"} : InitFirestoreSettled(outcome)
    \/ \E ok \in BOOLEAN : FirebaseAuthSettled(ok)
    \/ HandleSignIn
    \/ \E answer \in VerifyAnswers : SignInVerified(answer)
    \/ \E answer \in VerifyAnswers : SignInFallback(answer)
    \/ \E i \in DOMAIN signIn.results, outcome \in Balances \cup {Rejected} :
          BalanceQuerySettled(i, outcome)
    \/ SignInHoldingsSettled
    \/ \E balance \in Balances \cup {NoBalance} : SignInWalletSettled(balance)
    \/ HandleWalletCheck
    \/ \E balance \in Balances \cup {NoBalance} : WalletCheckSettled(balance)

\* The client session on its own: start-up, sign-in, holdings, wallet.
SpecSession == InitSession /\ [][SessionNext]_vars

\* some balance query of the batch under way settles
QuerySettles ==
    \E i \in DOMAIN signIn.results, outcome \in Balances \cup {Rejected} :
        BalanceQuerySettled(i, outcome)

\* The client session when every balance query settles in the end and the
\* event loop resumes the continuation of a resolved allSettled promise.
SpecSessionLive ==
    SpecSession /\ WF_vars(QuerySettles) /\ WF_vars(SignInHoldingsSettled)

(***************************************************************************)
(* The gated writes are explored from sessions at rest.  Each is a state   *)
(* SpecSession reaches (in a host without wallet access): signed in as a   *)
(* holder; signed in without holdings; a holder whose later sign-in        *)
(* failed; a holder whose Firebase sign-in failed; a holder without        *)
(* Firestore configuration; a first sign-in that failed.                   *)
(***************************************************************************)
RestingSession(signed, f, total, db, user) ==
    [fid |-> f, hasSignedIn |-> signed,
     verifiedAddresses |-> IF f = NoFid THEN << >> ELSE <<Addr(1, FALSE)>>,
     profileHoldings |-> IF f = NoFid THEN NoHoldings ELSE Summary(total, 1, 0),
     firestoreDb |-> db, firebaseUser |-> user]

RestingSessions ==
    { RestingSession(TRUE, LocalFid, 1, TRUE, LocalUid),
      RestingSession(TRUE, LocalFid, 0, TRUE, LocalUid),
      RestingSession(FALSE, LocalFid, 1, TRUE, LocalUid),
      RestingSession(TRUE, LocalFid, 1, TRUE, NoUser),
      RestingSession(TRUE, LocalFid, 1, FALSE, NoUser),
      RestingSession(FALSE, NoFid, 0, TRUE, LocalUid) }

AtRestIn(s, wallet) ==
    /\ sdkReady = TRUE
    /\ supportsWallet = wallet
    /\ fallbackDiffers = FALSE
    /\ fid = s.fid
    /\ verifiedAddresses = s.verifiedAddresses
    /\ hasSignedIn = s.hasSignedIn
    /\ signInInProgress = FALSE
    /\ profileHoldings = s.profileHoldings
    /\ walletHoldings = NoBalance
    /\ isHolder = HolderOf(s.profileHoldings, NoBalance)
    /\ firestoreDb = s.firestoreDb
    /\ firestoreReady = s.firestoreDb
    /\ firestoreInitInProgress = FALSE
    /\ firebaseUser = s.firebaseUser
    /\ firebaseAuthReady = s.firestoreDb
    /\ firebaseAuthPending = FALSE
    /\ firebaseAuthError = (s.firestoreDb /\ s.firebaseUser = NoUser)
    /\ signIn = idleSignIn
    /\ walletCheck = "idle"
    /\ ensure = idleEnsure
    /\ accounts = idleAccounts
    /\ fsInit = "done"
    /\ ops = [o \in Slots |-> idleOp]
    /\ postsStatus = FormStatus(firestoreReady, firestoreInitInProgress, firebaseAuthError,
                                firebaseAuthPending, firebaseUser, firebaseAuthReady,
                                hasSignedIn, isHolder)
    /\ postSubmitDisabled = ~CanInteract(firestoreReady, firebaseUser, hasSignedIn, isHolder)
    /\ walletButtonDisabled = ~wallet
    /\ voteButtonDisabled = [p \in PostIds |-> postSubmitDisabled]
    /\ countEl = [p \in PostIds |-> 0]

\* a session at rest in a host without wallet access
AtRest(s) == AtRestIn(s, FALSE)

Init ==
    /\ \E s \in RestingSessions : AtRest(s)
    /\ emptyStore
    /\ deployment = [impl |-> "node", appDomain |-> OwnDomain, corsOrigin |-> "",
                     neynarApiKey |-> TRUE]
    /\ serverIdle

\* the gated writes of this client run in the slots S
WritesIn(S) ==
    \/ \E o \in S, p \in PostIds : voteOnPost(o, p)
    \/ \E o \in S : VoteTxGet(o)
    \/ \E o \in S : VoteTxCommit(o)
    \/ \E o \in S : VoteTxFailed(o)
    \/ \E o \in S, p \in PostIds, len \in {0, 1, THREAD_BODY_MAX + 1} :
          createThreadReply(o, p, len)
    \/ \E o \in S : ReplyTxCommit(o)
    \/ \E o \in S : ReplyTxFailed(o)
    \/ \E o \in S, form \in PostForms : createPost(o, form.title, form.body)
    \/ \E o \in S : PostAdded(o)
    \/ \E o \in S : PostFailed(o)
    \/ \E o \in S, loaded \in BOOLEAN : PostReloaded(o, loaded)

WriteNext == WritesIn(Slots)

OthersNext ==
    \/ \E c \in OtherClients, p \in PostIds : OtherVote(c, p)
    \/ \E c \in OtherClients, p \in PostIds : OtherReply(c, p)
    \/ \E c \in OtherClients : OtherPost(c)

Next == WriteNext \/ OthersNext

\* The gated writes of this client among the other clients of the store.
Spec == Init /\ [][Next]_vars

InitVerify ==
    /\ PageLoaded(FALSE, FALSE, FALSE)
    /\ deployment \in Deployments
    /\ serverIdle

VerifyNext ==
    \/ handleVerify
    \/ serve
    \/ verifyFunction
    \/ \E outcome \in {"payload", "InvalidTokenError", "Error"} : VerifyJwtSettled(outcome)
    \/ NeynarSettled
    \/ ResponseSent

\* The verification endpoint serving requests, one at a time.
SpecVerify == InitVerify /\ [][VerifyNext]_vars

(***************************************************************************)
(* The chain check is explored from a signed-in session at rest in a host  *)
(* with wallet access: the wallet button starts connectWalletAndCheck, and *)
(* ensureBaseChain is also called on its own with either argument.         *)
(***************************************************************************)
InitChain ==
    /\ \E total \in {0, 1} : AtRestIn(RestingSession(TRUE, LocalFid, total, TRUE, LocalUid), TRUE)
    /\ emptyStore
    /\ deployment = [impl |-> "node", appDomain |-> OwnDomain, corsOrigin |-> "",
                     neynarApiKey |-> TRUE]
    /\ serverIdle

ChainNext ==
    \/ WalletButtonClicked
    \/ WalletCheckEnsures
    \/ WalletCheckAbandoned
    \/ \E balance \in Balances \cup {NoBalance} : WalletBalanceRead(balance)
    \/ \E impl \in {"app", "part_001"}, allowSwitch \in BOOLEAN : EnsureBaseChain(impl, allowSwitch)
    \/ \E value \in RawChainIds : ChainIdRead(value)
    \/ \E err \in ProviderErrors : ChainIdFailed(err)
    \/ SwitchSettled
    \/ \E err \in ProviderErrors : SwitchFailed(err)
    \/ AddSettled
    \/ \E err \in ProviderErrors : AddFailed(err)
    \/ \E value \in RawChainIds : ChainReRead(value)
    \/ \E err \in ProviderErrors : ChainReReadFailed(err)

\* The wallet check and the chain check it relies on.
SpecChain == InitChain /\ [][ChainNext]_vars


(***************************************************************************)
(* The gated writes while the session changes under them: from the same    *)
(* sessions at rest, the user also signs in again ("Recheck profile")      *)
(* while writes of this client are in flight.                              *)
(***************************************************************************)
InitGate ==
    /\ AtRest(RestingSession(TRUE, LocalFid, 1, TRUE, LocalUid))
    /\ emptyStore
    /\ deployment = [impl |-> "node", appDomain |-> OwnDomain, corsOrigin |-> "",
                     neynarApiKey |-> TRUE]
    /\ serverIdle

\* the answers of the verification call to a profile with at most one
\* verified address and no custody address
RecheckAnswers == {a \in VerifyAnswers : Len(a.addrs) <= 1 /\ a.custody.id = 0}

RecheckNext ==
    \/ HandleSignIn
    \/ \E answer \in RecheckAnswers : SignInVerified(answer)
    \/ QuerySettles
    \/ SignInHoldingsSettled

\* one write of this client at a time, among the steps of its sign-in
GateNext == WritesIn({1}) \/ RecheckNext

\* The gated writes of this client during its own sign-in attempts.
SpecGate == InitGate /\ [][GateNext]_vars

(***************************************************************************)
(* The wallet check request by request: the page loads in a host with      *)
(* wallet access, the automatic sign-in runs its silent check, and the     *)
(* user then clicks the wallet button or signs in again.                   *)
(***************************************************************************)
InitWallet ==
    /\ PageLoaded(TRUE, TRUE, FALSE)
    /\ emptyStore
    /\ deployment = [impl |-> "node", appDomain |-> OwnDomain, corsOrigin |-> "",
                     neynarApiKey |-> TRUE]
    /\ serverIdle

WalletNext ==
    \/ walletCheck = "idle" /\ accounts.pc = "idle" /\ HandleSignIn
    \/ \E answer \in RecheckAnswers : SignInVerified(answer)
    \/ QuerySettles
    \/ SignInHoldingsSettled
    \/ accounts.pc = "idle" /\ WalletButtonClicked
    \/ requestAccounts
    \/ \E n \in {0, 1} : AccountsAnswered(n)
    \/ \E err \in ProviderErrors : AccountsFailed(err)
    \/ ConnectWalletNoProvider
    \/ ConnectWalletEnsures
    \/ \E value \in RawChainIds : ChainIdRead(value)
    \/ \E err \in ProviderErrors : ChainIdFailed(err)
    \/ \E balance \in Balances \cup {NoBalance} : ConnectWalletOver(balance)

\* The wallet checks of a session, silent and prompted.
SpecWallet == InitWallet /\ [][WalletNext]_vars

(***************************************************************************)
(* The gated writes from the page load on: the store and the anonymous     *)
(* user become ready while the automatic sign-in and later attempts run,   *)
(* in a host without wallet access.                                        *)
(***************************************************************************)
InitFirst ==
    /\ PageLoaded(TRUE, FALSE, FALSE)
    /\ emptyStore
    /\ deployment = [impl |-> "node", appDomain |-> OwnDomain, corsOrigin |-> "",
                     neynarApiKey |-> TRUE]
    /\ serverIdle

FirstNext ==
    \/ InitFirestoreSettled("ready")
    \/ FirebaseAuthSettled(TRUE)
    \/ RecheckNext
    \/ WritesIn({1})

\* The first sign-in of a session and the writes tried meanwhile.
SpecFirst == InitFirst /\ [][FirstNext]_vars

(***************************************************************************)
(* Properties.                                                             *)
(***************************************************************************)
\* the holder rule of the specification, on the values a state holds
HolderRule(ph, wh) == (ph.known /\ ph.total > 0) \/ wh > 0

\* an authenticated fid, holder status and a ready store connection
GateOpen ==
    /\ fid # NoFid /\ hasSignedIn
    /\ isHolder
    /\ firestoreDb /\ firebaseUser # NoUser

UidsUnder(vs, p) == {v.uid : v \in {w \in vs : w.post = p}}

\* C1: however voteOnPost attempts of a uid on a post interleave with each
\* other and with other users' transactions, every step keeps the vote
\* records already stored, adds at most one record per (post, uid), and
\* raises the post's voteCount by exactly the number of (post, uid) keys it
\* adds: a uid's first committed vote counts once and no later attempt of
\* that uid counts again.
C1_VoteCountedOnce ==
    [][\A p \in PostIds :
          /\ VotesUnder(p) \subseteq {v \in votes' : v.post = p}
          /\ Cardinality({v \in votes' : v.post = p}) = Cardinality(UidsUnder(votes', p))
          /\ posts[p].exists =>
                posts'[p].voteCount - posts[p].voteCount =
                    Cardinality(UidsUnder(votes', p) \ UidsUnder(votes, p))]_vars

\* C1 witness: this uid's vote on post 1 is stored and counted once while
\* another attempt of the same uid, which had read "no vote yet", is being
\* re-run after its commit was refused
C1_Witness ==
    /\ VoteExists(1, LocalUid)
    /\ posts[1].voteCount = 1
    /\ \E o \in Slots : /\ ops[o].kind = "vote" /\ ops[o].post = 1
                        /\ ops[o].attempt = 2 /\ ops[o].didVote

\* C2: in every state, each post's voteCount is the number of vote records
\* stored under it.
C2_VoteCountMatchesRecords ==
    \A p \in PostIds : posts[p].voteCount = Cardinality(VotesUnder(p))

\* C2 witness: two users voted and this user's second attempt was told so:
\* voteCount is 2 with exactly two records
C2_Witness ==
    /\ posts[1].voteCount = 2
    /\ UidsUnder(votes, 1) = {LocalUid, 3}
    /\ Cardinality(VotesUnder(1)) = 2
    /\ postsStatus = "You already voted on this post."

\* C3: no two vote records under the same post carry the same fid.
C3_OneVotePerFid ==
    \A v \in votes, w \in votes : (v.post = w.post /\ v.fid = w.fid) => v = w

\* C4: a gated write handler of this client gets past its checks, and so
\* later writes, only in a state where the gate is open; with the gate
\* closed the store changes only by other clients' commits, in steps that
\* leave this client's handlers and page untouched.
C4_WritesOnlyThroughGate ==
    [][/\ ops' # ops => GateOpen
       /\ (storeVars' # storeVars /\ ~GateOpen) => UNCHANGED <<ops, domVars>>]_vars

\* C4 witness: with the gate open this client has created a post, voted on
\* it and replied to it
C4_Witness ==
    /\ GateOpen
    /\ posts[1].exists /\ posts[1].uid = LocalUid
    /\ VoteExists(1, LocalUid)
    /\ threads[1] # << >>
    /\ postsStatus = "Reply posted."

\* C5: every step that sets isHolder, stores a wallet balance or stores a
\* profile summary (the steps that run updateHolderState) leaves isHolder
\* true exactly when the profile total or the wallet balance is positive,
\* an unknown one counting as zero.
C5_HolderRuleApplied ==
    [][(\/ isHolder' # isHolder
        \/ walletHoldings' # walletHoldings
        \/ (profileHoldings' # profileHoldings /\ profileHoldings'.known))
       => (isHolder' <=> HolderRule(profileHoldings', walletHoldings'))]_vars

\* C5 witness: holder by the wallet balance alone, the profile summary unknown
C5_Witness ==
    /\ isHolder
    /\ ~profileHoldings.known
    /\ walletHoldings > 0
    /\ signIn.pc = "idle"

\* C6: in every state isHolder equals the holder rule on the current
\* profileHoldings and walletHoldings.
C6_HolderAlwaysCurrent ==
    isHolder <=> HolderRule(profileHoldings, walletHoldings)

\* C7: a sign-in attempt that fails leaves fid, verified addresses and both
\* holdings cleared, isHolder false and the write controls disabled.
C7_FailedSignInResets ==
    [][(signIn.pc \in {"verify", "fallback"} /\ signIn'.pc = "idle" /\ ~hasSignedIn')
       => /\ fid' = NoFid
          /\ verifiedAddresses' = << >>
          /\ ~profileHoldings'.known
          /\ walletHoldings' = NoBalance
          /\ ~isHolder'
          /\ postSubmitDisabled']_vars

\* C8: in every state, each post's threadCount is the number of reply
\* documents stored under it.
C8_ThreadCountMatchesReplies ==
    \A p \in PostIds : posts[p].threadCount = Len(threads[p])

\* C8 witness: two replies by different users are stored and counted, and a
\* further reply of this client failed
C8_Witness ==
    /\ posts[1].threadCount = 2
    /\ {threads[1][i].fid : i \in 1..Len(threads[1])} = {LocalFid, 2}
    /\ postsStatus = "Unable to post reply."

\* C9: when a vote or reply handler ends with its error message, that step
\* leaves the store and the displayed vote count as they were and, for a
\* vote, the vote button enabled; when it ends without the error message,
\* what it was to write is in the store (the uid's vote record; one more
\* reply together with one more on threadCount).
C9_FailedWriteLeavesStore ==
    [][\A o \in Slots :
          (ops[o].kind \in {"vote", "reply"} /\ ops[o].pc # "idle" /\ ops'[o].pc = "idle") =>
             IF postsStatus' \in {"Unable to record vote.", "Unable to post reply."}
             THEN /\ storeVars' = storeVars
                  /\ countEl' = countEl
                  /\ ops[o].kind = "vote" => ~voteButtonDisabled'[ops[o].post]
             ELSE IF ops[o].kind = "vote"
             THEN \E v \in votes' : v.post = ops[o].post /\ v.uid = ops[o].uid
             ELSE /\ Len(threads'[ops[o].post]) = Len(threads[ops[o].post]) + 1
                  /\ posts'[ops[o].post].threadCount = posts[ops[o].post].threadCount + 1]_vars

\* C9 witness: a vote on an existing post failed: nothing is stored, the
\* count shown is unchanged and the button can be pressed again
C9_Witness ==
    /\ postsStatus = "Unable to record vote."
    /\ posts[1].exists /\ posts[1].voteCount = 0 /\ votes = {}
    /\ countEl[1] = 0
    /\ ~voteButtonDisabled[1]
    /\ \A o \in Slots : ops[o].pc = "idle"

\* a token verifyJwt accepts for domain d
SoundFor(t, d) == t.present /\ t.signed /\ ~t.expired /\ t.aud = d

\* C10: the endpoint answers 200 only to a request carrying a token that is
\* valid for the deployment's own domain, whatever its host headers say.
C10_DomainBinding ==
    res.status = 200 => (SoundFor(req.bodyToken, OwnDomain) \/ SoundFor(req.bearer, OwnDomain))

(***************************************************************************)
(* The order of the endpoint's checks.                                     *)
(***************************************************************************)
\* the method is one the endpoint verifies tokens for
Verifiable(r) == r.method \in {"GET", "POST"}

\* the request supplies no token, neither in its body nor as a Bearer header
LacksToken(r) == ~ParsedToken(r).present /\ ~r.bearer.present

\* the request's headers name no host and no domain is configured
LacksDomain(r) == hostFromHeaders(r) = "" /\ deployment.appDomain = ""

\* the Node handler's JSON.parse of a POST body fails
BodyRejected(r) == deployment.impl = "node" /\ r.method = "POST" /\ r.body = "malformed"

\* the method checks come first
MethodChecks(r, response) ==
    /\ r.method = "OPTIONS" => response.status = 204 /\ response.error = ""
    /\ r.method \notin {"GET", "POST", "OPTIONS"} =>
           response.status = 405 /\ response.error = "method_not_allowed"

\* every later response presupposes the checks before it: locals are the
\* token and the domain the handler had settled when it answered
LaterChecks(r, response, locals) ==
    /\ response.error = "missing_domain" =>
           response.status = 500 /\ Verifiable(r) /\ locals.token.present
    /\ (response.status \in {200, 401} \/ response.error \in {"verification_failed", "invalid_fid"}) =>
           Verifiable(r) /\ locals.token.present /\ locals.domain # ""
    /\ response.error = "invalid_fid" =>
           response.status = 400 /\ SoundFor(locals.token, locals.domain)
                                 /\ ~locals.token.subFinite
    /\ response.status = 200 =>
           SoundFor(locals.token, locals.domain) /\ locals.token.subFinite

\* the profile lookup is started only once every check has passed, and the
\* response that follows it is the 200
EnrichmentLast ==
    /\ verify'.pc = "neynar" =>
           Verifiable(req') /\ SoundFor(verify'.token, verify'.domain)
                            /\ verify'.token.subFinite
    /\ verify.pc = "neynar" => res'.status = 200

HandlerEnded == verify.pc \in {"done", "thrown"}

\* a terminal outcome: 200, the 204 of OPTIONS, or a 4xx/5xx with an error code
TerminalOutcome(response) ==
    \/ response.status \in {200, 204} /\ response.error = ""
    \/ response.status \in 400..599 /\ response.error # ""

\* C12: every request reaches a terminal outcome: once the handler has
\* ended, a response has been sent, whatever the method, the headers and the
\* body (unparseable and oversized bodies included).
C12_EveryRequestAnswered == HandlerEnded => TerminalOutcome(res)

(***************************************************************************)
(* Verifier failures.                                                      *)
(***************************************************************************)
\* C13: when the verifier settles, a token it cannot accept for the domain
\* is answered 401 invalid_token (the verifier said InvalidToken) or 500
\* verification_failed (it failed otherwise), never anything else; 401 is
\* given to such tokens only; and neither error response carries a fid or
\* any profile data.
C13_VerifierFailureMapped ==
    [][verify.pc = "verifyJwt" =>
          /\ ~SoundFor(verify.token, verify.domain) =>
                \/ res'.status = 401 /\ res'.error = "invalid_token"
                \/ res'.status = 500 /\ res'.error = "verification_failed"
          /\ res'.status = 401 =>
                res'.error = "invalid_token" /\ ~SoundFor(verify.token, verify.domain)
          /\ res'.status \in {401, 500} =>
                /\ res'.error \in {"invalid_token", "verification_failed"}
                /\ res'.fid = NoFid
                /\ ~res'.username
                /\ res'.verifiedEthAddresses = << >>
                /\ verify'.pc = "done"]_vars

\* an expired token has been answered 401 invalid_token without a fid
C13_Witness ==
    /\ res.status = 401
    /\ res.error = "invalid_token"
    /\ res.fid = NoFid
    /\ verify.token.expired

(***************************************************************************)
(* Token extraction.                                                       *)
(***************************************************************************)
\* the request is a POST whose body yields no token and which carries a
\* Bearer token in its Authorization header
HeaderTokenOnly(r) == r.method = "POST" /\ ~ParsedToken(r).present /\ r.bearer.present

\* C14: the token is the body's token field (POST) or else the Bearer token
\* of the Authorization header.  Two consequences the statement draws:
\* missing_token is answered only to a request that supplies a token in
\* neither place, and a POST whose body yields no token but which carries a
\* Bearer header is verified with the header token (so it is answered by
\* the domain check or by what follows it, with that token in hand).
C14_TokenFromBodyOrHeader ==
    (res # NoResponse /\ Verifiable(req)) =>
        /\ res.error = "missing_token" => LacksToken(req)
        /\ HeaderTokenOnly(req) => verify.token = req.bearer

(***************************************************************************)
(* Best-effort enrichment.                                                 *)
(***************************************************************************)
\* the response carries nothing of a profile
BareIdentity(response) ==
    /\ response.verifiedEthAddresses = << >>
    /\ ~response.username
    /\ response.custodyAddress.id = 0

AddressesOf(user) ==
    {user.eth[i].id : i \in DOMAIN user.eth}
    \cup {user.verifications[i].id : i \in DOMAIN user.verifications}
    \cup (IF user.custody.id # 0 THEN {user.custody.id} ELSE {})

\* C16: the verifiedEthAddresses of a 200 response name exactly the
\* addresses of the user record (eth_addresses, verifications and custody),
\* each in lower case and none of them twice.
C16_AddressesNormalized ==
    res.status = 200 =>
        LET addresses == res.verifiedEthAddresses
        IN  /\ {addresses[i].id : i \in DOMAIN addresses} = AddressesOf(verify.user)
            /\ \A i \in DOMAIN addresses : ~addresses[i].upper
            /\ \A i, j \in DOMAIN addresses : addresses[i].id = addresses[j].id => i = j

(***************************************************************************)
(* The profile lookup's result.                                            *)
(***************************************************************************)
\* C17: whatever shape the provider's response has, the user record the
\* lookup hands to the handler is a record of the requested fid (the fid of
\* the verified token), or none.
C17_RecordOfRequestedFid ==
    verify.user.found => verify.user.fid = LocalFid

(***************************************************************************)
(* Domain resolution.                                                      *)
(***************************************************************************)
\* the first comma-separated entry, without its port, of the first
\* non-empty header among x-forwarded-host, x-original-host,
\* x-forwarded-server and host
HeaderDomain(r) ==
    LET headers == <<r.xForwardedHost, r.xOriginalHost, r.xForwardedServer, r.host>>
        nonEmpty == {i \in 1..4 : headers[i] # << >>}
    IN  IF nonEmpty = {} THEN ""
        ELSE LET first == CHOOSE i \in nonEmpty : \A j \in nonEmpty : i <= j
             IN  headers[first][1].host

\* C18: in every handler the domain the token is verified for is the
\* configured APP_DOMAIN when one is set, whatever the headers say, and
\* otherwise the domain the headers name.
C18_EffectiveDomain ==
    (verify.pc \in {"verifyJwt", "neynar", "done"} /\ verify.token.present) =>
        verify.domain = IF deployment.appDomain # "" THEN deployment.appDomain
                        ELSE HeaderDomain(req)

(***************************************************************************)
(* Cross-origin headers.                                                   *)
(***************************************************************************)
\* C19: every response carries Access-Control-Allow-Origin equal to the
\* request's Origin, or "*" when the request has none, and allows the
\* methods GET, POST, OPTIONS and the headers content-type, authorization.
C19_CorsOnEveryResponse ==
    res # NoResponse =>
        /\ res.allowOrigin = IF req.origin # "" THEN req.origin ELSE "*"
        /\ res.allowMethods = "GET, POST, OPTIONS"
        /\ res.allowHeaders = "content-type, authorization"

(***************************************************************************)
(* The holdings summary.                                                   *)
(***************************************************************************)
\* C20: a holdings summary accounts for every address queried: checked plus
\* failed is the number of distinct valid addresses among the verified
\* addresses, whatever mix of balance queries succeeded and failed.
C20_SummaryCoversAddresses ==
    profileHoldings.known =>
        profileHoldings.checked + profileHoldings.failed
            = Len(uniqueAddresses(verifiedAddresses))

\* of two addresses queried, one balance query succeeded and one failed
C20_Witness ==
    /\ profileHoldings.known
    /\ profileHoldings.checked = 1
    /\ profileHoldings.failed = 1
    /\ Len(uniqueAddresses(verifiedAddresses)) = 2

(***************************************************************************)
(* The holdings batch.                                                     *)
(***************************************************************************)
\* the sum of the balances of the queries that succeeded, taken in order
RECURSIVE SumSucceeded(_)
SumSucceeded(results) ==
    IF results = << >> THEN 0
    ELSE (IF Head(results) \in {Rejected, Pending} THEN 0 ELSE Head(results))
         + SumSucceeded(Tail(results))

\* how many queries of the batch failed, and how many succeeded
NumFailed(results) == Cardinality({i \in DOMAIN results : results[i] = Rejected})
NumSucceeded(results) == Cardinality({i \in DOMAIN results : results[i] \in Balances})

\* the step of checkProfileHoldings that ends the batch
BatchEnds == signIn.pc = "holdings" /\ signIn'.pc # "holdings"

\* C21: when a batch in which some query succeeded ends, the summary it
\* stores has total = the sum of the balances of the queries that succeeded,
\* checked = their number and failed = the number of queries that failed: a
\* failed query adds nothing to total and does not remove what the others
\* found.
C21_TotalIsSumOfSuccesses ==
    [][(BatchEnds /\ NumSucceeded(signIn.results) > 0) =>
          /\ profileHoldings'.known
          /\ profileHoldings'.total = SumSucceeded(signIn.results)
          /\ profileHoldings'.checked = NumSucceeded(signIn.results)
          /\ profileHoldings'.failed = NumFailed(signIn.results)]_vars

\* of a batch of two, one query failed and the other found one token, which
\* the summary kept
C21_Witness ==
    /\ profileHoldings.known
    /\ profileHoldings.total = 1
    /\ profileHoldings.failed = 1

(***************************************************************************)
(* The addresses queried.                                                  *)
(***************************************************************************)
\* the distinct well-formed addresses a list names, whatever their case and
\* the white space around them
DistinctAddresses(addresses) ==
    {addresses[i].id : i \in DOMAIN addresses} \ {0}

\* C22: the addresses queried for the verified addresses of the session are
\* one entry per distinct address, compared without regard to case and
\* surrounding white space; each is trimmed and in lower case; a batch under
\* way has one query per such entry; and deduplicating the deduplicated
\* list changes nothing.
C22_OneQueryPerAddress ==
    LET queried == uniqueAddresses(verifiedAddresses)
    IN  /\ {queried[i].id : i \in DOMAIN queried} = DistinctAddresses(verifiedAddresses)
        /\ \A i, j \in DOMAIN queried : queried[i].id = queried[j].id => i = j
        /\ \A i \in DOMAIN queried : ~queried[i].upper /\ ~queried[i].spaced
        /\ signIn.pc = "holdings" => Len(signIn.results) = Len(queried)
        /\ uniqueAddresses(queried) = queried

\* a batch is under way for verified addresses that name the same address
\* in two spellings, one of them with white space around it
C22_Witness ==
    /\ signIn.pc = "holdings"
    /\ \E i, j \in DOMAIN verifiedAddresses :
          /\ verifiedAddresses[i].id = verifiedAddresses[j].id
          /\ verifiedAddresses[i].upper /\ ~verifiedAddresses[j].upper
          /\ verifiedAddresses[i].spaced

\* what a batch with these settled queries publishes
ExpectedHoldings(results) ==
    IF NumSucceeded(results) = 0 THEN NoHoldings
    ELSE Summary(SumSucceeded(results), NumSucceeded(results), NumFailed(results))

\* while queries of the batch are pending, the sign-in handler publishes
\* nothing and stays in the batch; profileHoldings changes during a batch
\* only on the step that ends it, with every query settled, and then to the
\* summary of the settled results
BatchJoinsAllQueries ==
    [][signIn.pc = "holdings" =>
          /\ (signIn' # signIn /\ ~AllSettled(signIn.results)) =>
                /\ signIn'.pc = "holdings"
                /\ profileHoldings' = profileHoldings
                /\ isHolder' = isHolder
          /\ (profileHoldings' # profileHoldings \/ signIn'.pc # "holdings") =>
                /\ AllSettled(signIn.results)
                /\ profileHoldings' = ExpectedHoldings(signIn.results)]_vars

\* C23: the batch settles only once every balance query has settled, in
\* whatever order they complete; what it publishes is determined by the
\* settled results alone; and when every query settles in the end, a batch
\* under way is eventually over.
C23_BatchSettlesAfterAllQueries ==
    /\ BatchJoinsAllQueries
    /\ (signIn.pc = "holdings") ~> (signIn.pc # "holdings")

\* of a batch of two, the second query has settled before the first and
\* nothing has been published yet
C23_Witness ==
    /\ signIn.pc = "holdings"
    /\ Len(signIn.results) = 2
    /\ signIn.results[1] = Pending
    /\ signIn.results[2] # Pending
    /\ ~profileHoldings.known

\* C24: a batch in which some but not all queries failed stores a summary
\* with total = the sum of the successes and failed = the number of failures;
\* a batch in which every query failed leaves the profile holdings unknown;
\* and a stored summary with nothing checked exists only when the profile
\* has no address to check.
C24_NoFalseZero ==
    /\ [][BatchEnds =>
             /\ (NumFailed(signIn.results) > 0 /\ NumSucceeded(signIn.results) > 0) =>
                   /\ profileHoldings'.known
                   /\ profileHoldings'.total = SumSucceeded(signIn.results)
                   /\ profileHoldings'.failed = NumFailed(signIn.results)
                   /\ profileHoldings'.failed > 0
             /\ NumSucceeded(signIn.results) = 0 => ~profileHoldings'.known]_vars
    /\ [](profileHoldings.known /\ profileHoldings.checked = 0 =>
             uniqueAddresses(verifiedAddresses) = << >>)

\* every query of the batch failed: the handler has moved on to the wallet
\* and the profile holdings are unknown
C24_Witness ==
    /\ signIn.pc = "wallet"
    /\ uniqueAddresses(verifiedAddresses) # << >>
    /\ ~profileHoldings.known

(***************************************************************************)
(* The chain check.                                                        *)
(***************************************************************************)
\* the provider refused the request: the user rejected it, or the wallet
\* does not support the method
Refused(err) == isUserRejected(err) \/ isMethodUnsupported(err)

\* a call that goes on to switch: allowSwitch is true and the provider is
\* on another chain than Base
AwaitsSwitch == ensure.pc = "switch" /\ ensure.allowSwitch /\ ensure.chainId # BASE_CHAIN_ID

\* C25: when the switch request of a call with allowSwitch true on another
\* chain than 0x2105 fails with a user-rejected or a method-unsupported
\* error, ensureBaseChain does not throw that error, and what it returns has
\* useRpcFallback = true.
C25_RefusedSwitchFallsBack ==
    [][AwaitsSwitch =>
          /\ ensure'.pc = "thrown" => ~Refused(ensure'.error)
          /\ ensure'.pc = "returned" => ensure'.useRpcFallback]_vars

\* the requests of the call issued after its wallet_addEthereumChain request
\* was answered
AfterAdd ==
    {j \in DOMAIN ensure.requests :
        \E i \in DOMAIN ensure.requests :
            i < j /\ ensure.requests[i] = "wallet_addEthereumChain"}

\* C26: once the switch failed with 4902 and the Base network was added
\* successfully, the client's ensureBaseChain requests
\* wallet_switchEthereumChain a second time before it returns a chain id.
C26_SwitchRetriedAfterAdd ==
    (ensure.impl = "app" /\ ensure.pc = "returned" /\ AfterAdd # {}) =>
        \E j \in AfterAdd : ensure.requests[j] = "wallet_switchEthereumChain"

\* an error that is none of the signals ensureBaseChain knows
OtherError(err) == ~ChainNotRecognized(err) /\ ~Refused(err)

\* a provider request of the call rejects with err
ProviderRequestFailed(err) ==
    \/ ChainIdFailed(err)
    \/ SwitchFailed(err)
    \/ AddFailed(err)
    \/ ChainReReadFailed(err)

\* C27: whichever provider request of the client's ensureBaseChain rejects
\* with an error other than chain-not-recognized, user-rejected and
\* method-unsupported, the call ends by throwing that error.
C27_OtherErrorsPropagate ==
    [][\A err \in ProviderErrors :
          (ensure.impl = "app" /\ OtherError(err) /\ ProviderRequestFailed(err)) =>
              (ensure'.pc = "thrown" /\ ensure'.error = err)]_vars

\* a call of the client's ensureBaseChain has returned
Returned == ensure.impl = "app" /\ ensure.pc = "returned"

\* connectWalletAndCheck has its answer from ensureBaseChain
WalletCheckResumes ==
    walletCheck = "rpc" /\ ensure.caller = "connectWalletAndCheck" /\ ensure.pc = "returned"

\* C28: the client's ensureBaseChain, called with switching disallowed (as
\* the wallet check calls it) or answered that the switch is unsupported,
\* never throws; when it returns another chain id than 0x2105 it returns
\* useRpcFallback = true, and it returns useRpcFallback = false only with
\* the chain id 0x2105; the wallet check then reads the balance with
\* rpcCallBase and stores what the read returned.
C28_OtherChainUsesPublicRpc ==
    /\ [](ensure.impl = "app" /\ ~ensure.allowSwitch => ensure.pc # "thrown")
    /\ [](ensure.impl = "app" /\ ensure.pc = "thrown" => ~isMethodUnsupported(ensure.error))
    /\ [](Returned => (ensure.useRpcFallback <=> ensure.chainId # BASE_CHAIN_ID))
    /\ [][WalletCheckResumes =>
             /\ walletCheck' = "idle"
             /\ ensure'.read = "rpcCallBase"
             /\ walletHoldings' \in Balances \/ walletHoldings' = walletHoldings]_vars

\* the wallet check has completed with a balance although the provider is
\* on chain 0x1 and the call returned useRpcFallback = true
C28_Witness ==
    /\ ensure.caller = "connectWalletAndCheck"
    /\ ensure.pc = "idle"
    /\ ensure.chainId = "0x1"
    /\ ensure.useRpcFallback
    /\ ensure.read = "rpcCallBase"
    /\ walletCheck = "idle"
    /\ walletHoldings \in Balances

(***************************************************************************)
(* The verification calls of a sign-in attempt.                            *)
(***************************************************************************)
\* the attempt was accepted: it goes on as signed in, or has ended so
SignInGoesOn == signIn'.signedIn \/ (signIn'.pc = "idle" /\ hasSignedIn')

\* C29: a sign-in attempt calls the primary endpoint once and the fallback
\* endpoint at most once after it, and nothing else; the fallback is called
\* only when the primary answered 404 or 405 and the fallback URL differs,
\* and no other answer of the primary leads to a second call; a fallback
\* answer that is ok decides the attempt in place of the primary's, and a
\* fallback answer of 404 or 405 leaves the attempt refused.
C29_AtMostOneFallbackCall ==
    /\ [](signIn.calls \in {<< >>, <<"apiVerifyUrl">>, <<"apiVerifyUrl", "fallbackVerifyUrl">>})
    /\ [](signIn.pc = "idle" <=> signIn.calls = << >>)
    /\ [][Len(signIn'.calls) > Len(signIn.calls) /\ Len(signIn.calls) > 0 =>
             /\ signIn.pc = "verify"
             /\ signIn'.pc = "fallback"
             /\ signIn'.res.status \in {404, 405}
             /\ fallbackDiffers]_vars
    /\ [][signIn.pc = "verify" =>
             \A a \in VerifyAnswers :
                 (SignInVerified(a) /\ ~(a.status \in {404, 405} /\ fallbackDiffers)) =>
                     signIn'.calls \in {<< >>, signIn.calls}]_vars
    /\ [][signIn.pc = "fallback" =>
             \A a \in VerifyAnswers :
                 SignInFallback(a) =>
                     /\ (a.status = 200 /\ a.hasFid) => (SignInGoesOn /\ fid' = a.fid)
                     /\ a.status \in {404, 405} => ~SignInGoesOn
                     /\ signIn'.calls \in {<< >>, signIn.calls}]_vars

\* an attempt accepted on the answer of the fallback endpoint
C29_Witness ==
    /\ signIn.signedIn
    /\ signIn.calls = <<"apiVerifyUrl", "fallbackVerifyUrl">>
    /\ fid = LocalFid

(***************************************************************************)
(* The asynchronous handlers of the session among themselves.              *)
(***************************************************************************)
\* C30: while a handleWalletCheck is awaiting connectWalletAndCheck, no
\* handleSignIn (its verification call, checkProfileHoldings or silent
\* wallet check) is under way, so the session variables have one writer at a
\* time.
C30_SignInNeverOverlapsWalletCheck ==
    ~(signIn.pc # "idle" /\ walletCheck # "idle")

(***************************************************************************)
(* The post form.                                                          *)
(***************************************************************************)
\* a form createPost must refuse: a field empty once trimmed, or longer
\* than its maximum
InvalidForm(form) ==
    \/ form.title.text = 0
    \/ form.body.text = 0
    \/ form.title.text > POST_TITLE_MAX
    \/ form.body.text > POST_BODY_MAX

\* slot o takes up the write of a post
StartsPost(o) == ops[o].pc = "idle" /\ ops'[o].pc = "commit" /\ ops'[o].kind = "post"

CanWrite == CanInteract(firestoreReady, firebaseUser, hasSignedIn, isHolder)

\* C32: the post-submit control and every rendered vote control are enabled
\* only while the store is ready, a store user exists, the user is signed
\* in and isHolder is true; and a step that closes this gate leaves all of
\* them disabled.
C32_ControlsFollowHolderFlag ==
    /\ [](~postSubmitDisabled => CanWrite)
    /\ [](\A p \in PostIds : ~voteButtonDisabled[p] => CanWrite)
    /\ [][CanWrite /\ ~CanWrite' =>
             (postSubmitDisabled' /\ \A p \in PostIds : voteButtonDisabled'[p])]_vars

(***************************************************************************)
(* Voting again.                                                           *)
(***************************************************************************)

\* a vote call in slot o by a uid whose vote record is already in the store
\* and whose update function has not set didVote
AlreadyVoted(o) ==
    /\ ops[o].kind = "vote"
    /\ ~ops[o].didVote
    /\ VoteExists(ops[o].post, ops[o].uid)

\* C33: voteOnPost by a uid that already has a vote record on the post is
\* idempotent: the first run of the update function starts with didVote
\* false, no step of the call changes the vote records, the posts (their
\* voteCount included) or the displayed counts, and when the store decides the
\* transaction the call ends with "You already voted on this post.".
C33_VoteAgainIsIdempotent ==
    /\ [](\A o \in Slots : ops[o].pc = "get" /\ ops[o].attempt = 1 => ~ops[o].didVote)
    /\ [][\A o \in Slots :
             AlreadyVoted(o) /\ ops'[o] # ops[o] =>
                 /\ UNCHANGED <<storeVars, countEl>>
                 /\ ops'[o].pc \in {"commit", "idle"}
                 /\ VoteTxCommit(o) =>
                        /\ ops'[o] = idleOp
                        /\ postsStatus' = "You already voted on this post."]_vars

\* a second vote of the local user was answered
C33_Witness ==
    /\ postsStatus = "You already voted on this post."
    /\ \E p \in PostIds : VoteExists(p, LocalUid) /\ countEl[p] = 1 /\ posts[p].voteCount = 1

(***************************************************************************)
(* One sign-in at a time.                                                  *)
(***************************************************************************)

\* a call of handleSignIn is between its first and its last statement
SignInRunning == signIn.pc # "idle"

\* C34: at most one handleSignIn runs at a time.  signInInProgress is true
\* exactly while a call is running, so it is released however the call ends;
\* while it is true no call gets past the guard, and the steps of the running
\* call are the only ones that change the sign-in's position or its requests;
\* whenever no call is running a new call is accepted.
C34_OneSignInAtATime ==
    /\ [](signInInProgress <=> SignInRunning)
    /\ [][signInInProgress =>
             /\ ~HandleSignIn
             /\ Len(signIn'.calls) >= Len(signIn.calls) \/ ~signInInProgress']_vars
    /\ [](~SignInRunning => ENABLED HandleSignIn)

\* a later sign-in was accepted after an earlier one that had set the fid
\* came to its end in failure
C34_Witness ==
    /\ signInInProgress
    /\ signIn.pc = "verify"
    /\ fid # NoFid
    /\ ~hasSignedIn

(***************************************************************************)
(* The three handlers side by side.                                        *)
(***************************************************************************)

\* what the Deno.serve callback has done with request r when it first
\* returns or awaits: the error response it sent, or the token and domain it
\* handed to the verifier (status 0: no response yet)
serveFirstAnswer(r) ==
    LET answered(status, error) ==
            [status |-> status, error |-> error, token |-> NoToken, domain |-> ""]
    IN  IF r.method = "OPTIONS" THEN answered(204, "")
        ELSE IF r.method \notin {"GET", "POST"} THEN answered(405, "method_not_allowed")
        ELSE IF ~readTokenDeno(r).present THEN answered(400, "missing_token")
        ELSE IF ConfiguredOrHost(r) = "" THEN answered(500, "missing_domain")
        ELSE [status |-> 0, error |-> "", token |-> readTokenDeno(r),
              domain |-> ConfiguredOrHost(r)]

\* the same of the handler that is deployed
FirstAnswer ==
    [status |-> res.status, error |-> res.error,
     token |-> IF verify.pc = "verifyJwt" THEN verify.token ELSE NoToken,
     domain |-> IF verify.pc = "verifyJwt" THEN verify.domain ELSE ""]

\* C35: the Node, Deno and Functions handlers are observationally equivalent
\* on /api/verify: whichever is deployed, a request is answered at once with
\* the status and error the Deno handler gives it, or reaches the verifier
\* with the token and domain the Deno handler passes; from there on the
\* handlers share their steps.
C35_HandlersEquivalent ==
    [][req = NoRequest /\ req' # NoRequest => FirstAnswer' = serveFirstAnswer(req')]_vars

(***************************************************************************)
(* A wallet check that fails.                                              *)
(***************************************************************************)

\* connectWalletAndCheck comes to its end, silently within handleSignIn or
\* after a click on the wallet button, with this balance read or with none
WalletCheckOver(balance) == SignInWalletSettled(balance) \/ WalletCheckSettled(balance)

\* C36: a connectWalletAndCheck that fails, silent or not, leaves
\* walletHoldings, profileHoldings and isHolder as they were, and
\* walletHoldings changes only in the step that ends a check with a balance
\* read, to that balance.
C36_FailedWalletCheckKeepsHoldings ==
    /\ [][WalletCheckOver(NoBalance) =>
              UNCHANGED <<walletHoldings, profileHoldings, isHolder>>]_vars
    /\ [][walletHoldings' # walletHoldings =>
              \E balance \in Balances : WalletCheckOver(balance) /\ walletHoldings' = balance]_vars

\* the automatic check of a sign-in in a host with wallet access has failed:
\* the sign-in is over, no wallet balance is known, the user is a holder by
\* the profile
C36_Witness ==
    /\ sdkReady /\ supportsWallet
    /\ hasSignedIn /\ ~signInInProgress
    /\ walletHoldings = NoBalance
    /\ profileHoldings.known /\ profileHoldings.total > 0
    /\ isHolder

(***************************************************************************)
(* Prompts of the wallet check.                                            *)
(***************************************************************************)

Requested(log, method) == \E i \in DOMAIN log : log[i] = method

HoldingsCheckOver ==
    \/ signIn.pc = "holdings" /\ \A i \in DOMAIN signIn.results : signIn.results[i] # Pending
    \/ signIn.pc \in {"verify", "fallback"} /\ uniqueAddresses(verifiedAddresses') = << >>
    \/ signIn.pc = "wallet"

AimedAtNoPost(o) == ops[o].kind \in {"vote", "reply"} /\ ~posts[ops[o].post].exists

\* C39: vote and reply records exist only under existing posts, and a
\* voteOnPost or createThreadReply aimed at a post id without a post document
\* fails as a whole: the step that ends it leaves the store as it was and
\* reports the failure.
C39_RecordsOnlyUnderPosts ==
    /\ [](\A v \in votes : posts[v.post].exists)
    /\ [](\A p \in PostIds : ~posts[p].exists => threads[p] = << >>)
    /\ [][\A o \in Slots :
             AimedAtNoPost(o) /\ ops'[o] = idleOp =>
                 /\ UNCHANGED storeVars
                 /\ postsStatus' = IF ops[o].kind = "vote" THEN "Unable to record vote."
                                   ELSE "Unable to post reply."]_vars

\* a vote of another client stands under the first post, while a vote of
\* this client aimed at an id without a post has failed
C39_Witness ==
    /\ postsStatus = "Unable to record vote."
    /\ \E p \in PostIds : posts[p].exists /\ VotesUnder(p) # {}
    /\ \A v \in votes : v.uid # LocalUid
    /\ \A p \in PostIds : threads[p] = << >>
    /\ \E p \in PostIds : ~posts[p].exists

====
